---- MODULE Spec2Model ----
(***************************************************************************)
(* A model of the token-scoped storage controller of file-sharer           *)
(* (src/src/controller.rs): path sanitisation, the per-token config files  *)
(* behind one process-wide mutex, staged file writes with cleanup on drop, *)
(* multipart ingestion and the quota accounting of User::upload_files.     *)
(***************************************************************************)
EXTENDS Integers, Sequences, FiniteSets, TLC

VARIABLES
    now,            \* the clock as Timestamp::now() last read it
    mutex,          \* holder of Controller.token_config_mutex, or Free
    dirs,           \* token directories that exist, <<category, token>>
    filesDirs,      \* token directories whose files/ directory exists
    config,         \* <<contents of <token directory>/token.toml>>, or NoFile
    files,          \* per token directory: file name -> the file at files/<name>
    req,            \* the in-flight calls of User::upload_files
    issued,         \* history: space_quota each upload token was issued with
    consumed,       \* history: quota settled for good by finished calls
    finalizedBytes, \* history: bytes returned by NewFile::close per token directory
    lastIssue,      \* outcome of the last call of create_token_config
    pathIn,         \* input string of the path functions
    pathOut,        \* <<sanitize_path(pathIn)>> once computed, else <<>>
    fnOut,          \* <<Filename::deserialize(pathIn)>> once computed, else <<>>
    call,           \* the in-flight calls of TokenConfig::create / load / update
    share,          \* the in-flight call of Admin::share_files
    argIn,          \* <<argument>> of the operation that last ran, else <<>>
    resOut,         \* <<what it returned>>, else <<>>
    ingest,         \* the in-flight calls of NewFile::from_multipart
    main            \* fn main: its position, its channels and the tasks it spawned

vars == <<now, mutex, dirs, filesDirs, config, files, req, issued, consumed,
          finalizedBytes, lastIssue, pathIn, pathOut, fnOut, call, share, argIn,
          resOut, ingest, main>>

storeVars == <<dirs, filesDirs, config, files>>
pathVars == <<pathIn, pathOut, fnOut>>
histVars == <<issued, consumed, finalizedBytes>>
opVars == <<call, share, argIn, resOut, ingest, main>>

(***************************************************************************)
(* Bounds of the model.                                                    *)
(***************************************************************************)
MaxQuota == 2           \* largest space_quota a token is issued with
MaxLen == 2             \* largest declared content length
MaxStreamBytes == 1     \* bytes one field stream delivers at most
MaxTime == 2            \* last instant of the clock
MaxPathLen == 4         \* longest input string of the path functions

Requests == {1, 2}      \* two calls of upload_files run concurrently
Categories == {"shares", "uploads"}
Tokens == {"t1", "t2"}
TokenDirs == Categories \X Tokens
Free == 0
NoFile == <<>>
Unset == <<>>
None == <<>>
Some(v) == <<v>>

Max(a, b) == IF a >= b THEN a ELSE b

(***************************************************************************)
(* std::path::Path::components on a Unix path: the root, then the parts    *)
(* between separators; empty parts and "." are normalised away, except a   *)
(* "." that starts a relative path; ".." is ParentDir.                     *)
(***************************************************************************)
PathChars == {"a", ".", "/"}

PathStrings == UNION {[1..n -> PathChars] : n \in 0..MaxPathLen}

RECURSIVE SplitFrom(_, _, _, _)
SplitFrom(s, i, cur, acc) ==
    IF i > Len(s)
    THEN IF cur = <<>> THEN acc ELSE Append(acc, cur)
    ELSE IF s[i] = "/"
         THEN SplitFrom(s, i + 1, <<>>, IF cur = <<>> THEN acc ELSE Append(acc, cur))
         ELSE SplitFrom(s, i + 1, Append(cur, s[i]), acc)

Parts(s) == SplitFrom(s, 1, <<>>, <<>>)

HasRoot(s) == Len(s) > 0 /\ s[1] = "/"

Component(kind, name) == [kind |-> kind, name |-> name]

RECURSIVE PartComponents(_, _, _)
PartComponents(parts, k, hasRoot) ==
    IF k > Len(parts) THEN <<>>
    ELSE LET p == parts[k]
             rest == PartComponents(parts, k + 1, hasRoot)
         IN  IF p = <<".">>
             THEN IF k = 1 /\ ~hasRoot
                  THEN <<Component("CurDir", p)>> \o rest
                  ELSE rest
             ELSE IF p = <<".", ".">>
                  THEN <<Component("ParentDir", p)>> \o rest
                  ELSE <<Component("Normal", p)>> \o rest

Components(s) ==
    (IF HasRoot(s) THEN <<Component("RootDir", <<"/">>)>> ELSE <<>>)
        \o PartComponents(Parts(s), 1, HasRoot(s))

(***************************************************************************)
(* sanitize_path: Normal components are pushed, ParentDir pops the last    *)
(* kept component (PathBuf::pop on an empty buffer does nothing), every    *)
(* other component is dropped.  The result is the list of kept names.      *)
(***************************************************************************)
Pop(buf) == IF buf = <<>> THEN buf ELSE SubSeq(buf, 1, Len(buf) - 1)

SanitizeKeepParent(buf, comp) ==
    IF comp.kind \in {"Normal", "ParentDir"} THEN Append(buf, comp.name) ELSE buf

SanitizeStep(buf, comp) ==
    IF comp.kind = "Normal" THEN Append(buf, comp.name)
    ELSE IF comp.kind = "ParentDir" THEN Pop(buf)
    ELSE buf

RECURSIVE SanitizeFold(_, _, _)
SanitizeFold(comps, k, buf) ==
    IF k > Len(comps) THEN buf
    ELSE SanitizeFold(comps, k + 1, SanitizeStep(buf, comps[k]))

sanitize_path(s) == SanitizeFold(Components(s), 1, <<>>)

(***************************************************************************)
(* storage_directory.join(sanitize_path(..)) and the path the operating    *)
(* system resolves it to: ".." moves to the parent, "." stays.             *)
(***************************************************************************)
BaseDir == << <<"f">>, <<"t">> >>

Join(base, rel) == base \o rel

RECURSIVE ResolveFrom(_, _, _)
ResolveFrom(names, k, acc) ==
    IF k > Len(names) THEN acc
    ELSE IF names[k] = <<".", ".">> THEN ResolveFrom(names, k + 1, Pop(acc))
    ELSE IF names[k] = <<".">> THEN ResolveFrom(names, k + 1, acc)
    ELSE ResolveFrom(names, k + 1, Append(acc, names[k]))

Resolve(names) == ResolveFrom(names, 1, <<>>)

IsPrefix(p, q) == Len(p) <= Len(q) /\ SubSeq(q, 1, Len(p)) = p

(***************************************************************************)
(* Filename::deserialize: the first component must exist and be Normal,    *)
(* and no second component may follow.                                     *)
(***************************************************************************)
BadPath == [ok |-> FALSE, name |-> <<>>]

FilenameDeserialize(s) ==
    LET comps == Components(s) IN
    IF comps = <<>> THEN BadPath
    ELSE IF comps[1].kind # "Normal" THEN BadPath
    ELSE IF Len(comps) > 1 THEN BadPath
    ELSE [ok |-> TRUE, name |-> comps[1].name]

(***************************************************************************)
(* Timestamp and the token configs.  A Timestamp is a NaiveDateTime; it is  *)
(* serialised with FORMAT "%FT%H:%M", which prints the date, the hour and  *)
(* the minute and no offset from UTC; parsing a string with FORMAT gives   *)
(* the start of that minute, and fails on a string that has other parts    *)
(* than FORMAT names.  The clock counts ticks, TicksPerMinute of them in   *)
(* a minute.  A timestamp string is the parts it shows and the minute it   *)
(* names.                                                                  *)
(***************************************************************************)
TicksPerMinute == 2

TimestampParts == {"date", "time", "offset"}

FORMAT == {"date", "time"}

TimestampToString(t) == [parts |-> FORMAT, minute |-> t \div TicksPerMinute]

\* NaiveDateTime::parse_from_str(s, FORMAT) succeeds.
TimestampParses(s) == s.parts = FORMAT

TimestampFromString(s) == s.minute * TicksPerMinute

\* Timestamp::deserialize.
TimestampDeserialize(s) ==
    IF TimestampParses(s) THEN Some(TimestampFromString(s)) ELSE None

ConfigNames == {"", "n"}

ShareConfig(name, expiry) == [name |-> name, expiry |-> expiry]

UploadConfig(name, expiry, space_quota) ==
    [name |-> name, expiry |-> expiry, space_quota |-> space_quota]

\* toml::to_string of a config: the expiry goes through Timestamp's Serialize.
TomlToString(c) == [c EXCEPT !.expiry = TimestampToString(c.expiry)]

\* toml::from_str of a stored config: the expiry goes through Timestamp's Deserialize.
TomlFromStr(text) == [text EXCEPT !.expiry = TimestampFromString(text.expiry)]

\* A subtraction that wraps around instead of reporting the underflow.
wrapping_sub(a, b) == Some((a - b) % 256)

\* ByteCount::checked_sub and ByteCount::saturating_sub.
checked_sub(a, b) == IF a >= b THEN Some(a - b) ELSE None

saturating_sub(a, b) == IF a >= b THEN a - b ELSE 0

\* IsTokenConfig::storage_directory joined with the token (get_token_config).
get_share_config(token) == <<"shares", token>>

\* An upload token looked up in the directory of the shares.
UploadUnderShares(token) == <<"shares", token>>

get_upload_config(token) == <<"uploads", token>>

\* A token.toml whose text is not a config.
Corrupt == [garbage |-> TRUE]

\* toml::from_str succeeds on the text.
Parses(text) == "name" \in DOMAIN text /\ TimestampParses(text.expiry)

\* TokenConfigMutexCore::load_config: the parsed token.toml, or None when the
\* file cannot be read or its text cannot be parsed.
load_config(td) ==
    IF config[td] = NoFile THEN None
    ELSE IF ~Parses(config[td][1]) THEN None
    ELSE Some(TomlFromStr(config[td][1]))

\* TokenConfigMutexCore::save_config: token.toml is overwritten with the
\* serialised config.
save_config(td, c) == [config EXCEPT ![td] = Some(TomlToString(c))]

\* A lock that is granted while another holder is inside its update.
LockNeverWaits == TRUE

\* tokio::sync::Mutex::lock completes only when nobody holds the mutex.
CanLock == mutex = Free

(***************************************************************************)
(* TokenConfigMutexCore::create_token_config under TokenConfig::create:    *)
(* the token directory, its files/ directory, then token.toml.  Each step  *)
(* may fail (create_dir fails when the directory exists); a failure        *)
(* returns at once and undoes nothing.  fault names the step the           *)
(* filesystem refuses, if any.                                             *)
(***************************************************************************)
Faults == {"none", "create_token_dir", "create_files_dir", "write_config"}

\* An issuance that uses create_dir_all: an existing token directory is
\* accepted and its token.toml overwritten.
CreateOverExisting(td, c, fault) ==
    /\ CanLock
    /\ UNCHANGED <<mutex, files>>
    /\ IF fault # "none"
       THEN /\ UNCHANGED <<dirs, filesDirs, config>>
            /\ lastIssue' = [td |-> td, ok |-> FALSE]
       ELSE /\ dirs' = dirs \cup {td}
            /\ filesDirs' = filesDirs \cup {td}
            /\ config' = save_config(td, c)
            /\ lastIssue' = [td |-> td, ok |-> TRUE]

create_token_config(td, c, fault) ==
    /\ CanLock
    /\ UNCHANGED <<mutex, files>>
    /\ IF td \in dirs \/ fault = "create_token_dir"
       THEN /\ UNCHANGED <<dirs, filesDirs, config>>
            /\ lastIssue' = [td |-> td, ok |-> FALSE]
       ELSE /\ dirs' = dirs \cup {td}
            /\ IF fault = "create_files_dir"
               THEN /\ UNCHANGED <<filesDirs, config>>
                    /\ lastIssue' = [td |-> td, ok |-> FALSE]
               ELSE /\ filesDirs' = filesDirs \cup {td}
                    /\ IF fault = "write_config"
                       THEN /\ UNCHANGED config
                            /\ lastIssue' = [td |-> td, ok |-> FALSE]
                       ELSE /\ config' = save_config(td, c)
                            /\ lastIssue' = [td |-> td, ok |-> TRUE]

\* Admin::new_share_token: Token::new() draws the token.
new_share_token ==
    \E token \in Tokens, name \in ConfigNames, expiry \in 0..MaxTime, fault \in Faults :
        /\ create_token_config(get_share_config(token), ShareConfig(name, expiry), fault)
        /\ UNCHANGED <<now, req, histVars, pathVars, opVars>>

\* Admin::new_upload_token on the config it is given, with the token that
\* Token::new() draws: an empty name becomes the token's own string.
NewUploadTokenWith(token, given, fault) ==
    LET td == get_upload_config(token)
        c == [given EXCEPT !.name = IF given.name = "" THEN token ELSE given.name]
    IN  /\ create_token_config(td, c, fault)
        /\ issued' = IF lastIssue'.ok THEN [issued EXCEPT ![td] = given.space_quota]
                      ELSE issued

new_upload_token ==
    \E token \in Tokens, name \in ConfigNames, expiry \in 0..MaxTime,
       quota \in 0..MaxQuota, fault \in Faults :
        /\ NewUploadTokenWith(token, UploadConfig(name, expiry, quota), fault)
        /\ UNCHANGED <<now, req, consumed, finalizedBytes, pathVars, opVars>>

(***************************************************************************)
(* The files of a token's files/ directory.  A file on disk has a size;    *)
(* complete records that the NewFile that last wrote it was closed.        *)
(***************************************************************************)
FileNames == {<<"a">>, <<"b">>}

\* What Field::file_name may hold: plain names, a traversal and a bare "..".
FieldNames == {<<"a">>, <<"b">>, <<".", ".", "/", "a">>, <<".", ".">>}

AbsentFile == [exists |-> FALSE, size |-> 0, complete |-> FALSE]

NoFiles == [n \in FileNames |-> AbsentFile]

\* A NewFile: the path it was created at, the bytes it has written, and
\* whether the path still names the file it holds open.
Sink(name, size, linked) == [name |-> name, size |-> size, linked |-> linked]

IdleRequest ==
    [pc |-> "idle", token |-> "t1", len |-> 0, cfg |-> None, total |-> 0,
     written |-> 0, sink |-> None, result |-> "none",
     q0 |-> 0, alone |-> FALSE, reserved |-> FALSE, refunded |-> FALSE]

Finished(result, reserved, refunded) ==
    [IdleRequest EXCEPT !.pc = "done", !.result = result,
                        !.reserved = reserved, !.refunded = refunded]

InFlight(x) == x.pc \in {"ingest", "file", "lock3", "step3"}

\* The calls that hold a reservation on the token directory td.
Reserving(td) ==
    {r \in Requests : InFlight(req[r]) /\ get_upload_config(req[r].token) = td}

RECURSIVE SumLen(_)
SumLen(rs) ==
    IF rs = {} THEN 0
    ELSE LET r == CHOOSE x \in rs : TRUE IN req[r].len + SumLen(rs \ {r})

\* Another call of the same token stored a config: the calls in flight on
\* that token are no longer alone.
Disturbed(x, td) ==
    IF InFlight(x) /\ get_upload_config(x.token) = td
    THEN [x EXCEPT !.alone = FALSE]
    ELSE x

(***************************************************************************)
(* User::upload_files, step 1: TokenConfig::update locks the mutex and     *)
(* with_token_config_mut loads the config (UploadLoad), then runs the      *)
(* closure and saves what it left, unless it failed (UploadReserve).       *)
(***************************************************************************)
UploadLoad(r) ==
    /\ req[r].pc = "idle"
    /\ \A earlier \in Requests : earlier < r => req[earlier].pc # "idle"
    /\ CanLock
    /\ \E token \in Tokens, len \in 0..MaxLen :
        LET td == get_upload_config(token)
            loaded == load_config(td)
        IN  IF loaded = None
            THEN /\ req' = [req EXCEPT ![r] = Finished("NotFound", FALSE, FALSE)]
                 /\ UNCHANGED mutex
            ELSE /\ req' = [req EXCEPT ![r] = [IdleRequest EXCEPT
                                !.pc = "step1", !.token = token, !.len = len,
                                !.cfg = loaded]]
                 /\ mutex' = r
    /\ UNCHANGED <<now, storeVars, histVars, lastIssue, pathVars, opVars>>

\* The closure of the first update, run on the loaded config c at time t.
ReserveQuotaFirst(c, t, request_size) ==
    LET left == checked_sub(c.space_quota, request_size) IN
    IF left = None THEN [result |-> "OutOfSpace", config |-> c]
    ELSE IF t > c.expiry THEN [result |-> "Expired", config |-> c]
    ELSE [result |-> "Ok", config |-> [c EXCEPT !.space_quota = left[1]]]

ReserveUnchecked(c, t, request_size) ==
    IF t > c.expiry THEN [result |-> "Expired", config |-> c]
    ELSE [result |-> "Ok",
          config |-> [c EXCEPT !.space_quota = saturating_sub(@, request_size)]]

ReserveClosure(c, t, request_size) ==
    LET left == checked_sub(c.space_quota, request_size) IN
    IF t > c.expiry THEN [result |-> "Expired", config |-> c]
    ELSE IF left = None THEN [result |-> "OutOfSpace", config |-> c]
    ELSE [result |-> "Ok", config |-> [c EXCEPT !.space_quota = left[1]]]

\* A first update whose guard is still alive when the streaming starts.
ReserveKeepsLock(r) ==
    /\ req[r].pc = "step1"
    /\ \E t \in now..MaxTime : now' = t
    /\ LET td == get_upload_config(req[r].token)
           c == req[r].cfg[1]
           out == ReserveClosure(c, now', req[r].len)
       IN  IF out.result # "Ok"
           THEN /\ req' = [req EXCEPT ![r] = Finished(out.result, FALSE, FALSE)]
                /\ UNCHANGED config
           ELSE /\ config' = save_config(td, out.config)
                /\ req' = [x \in Requests |->
                            IF x = r
                            THEN [req[r] EXCEPT !.pc = "ingest", !.cfg = None,
                                                !.q0 = c.space_quota, !.alone = TRUE,
                                                !.reserved = TRUE]
                            ELSE Disturbed(req[x], td)]
    /\ mutex' = IF req'[r].pc = "ingest" THEN r ELSE Free
    /\ UNCHANGED <<dirs, filesDirs, files, histVars, lastIssue, pathVars, opVars>>

UploadReserve(r) ==
    /\ req[r].pc = "step1"
    /\ \E t \in now..MaxTime : now' = t
    /\ LET td == get_upload_config(req[r].token)
           c == req[r].cfg[1]
           out == ReserveClosure(c, now', req[r].len)
       IN  IF out.result # "Ok"
           THEN /\ req' = [req EXCEPT ![r] = Finished(out.result, FALSE, FALSE)]
                /\ UNCHANGED config
           ELSE /\ config' = save_config(td, out.config)
                /\ req' = [x \in Requests |->
                            IF x = r
                            THEN [req[r] EXCEPT !.pc = "ingest", !.cfg = None,
                                                !.q0 = c.space_quota, !.alone = TRUE,
                                                !.reserved = TRUE]
                            ELSE Disturbed(req[x], td)]
    /\ mutex' = Free
    /\ UNCHANGED <<dirs, filesDirs, files, histVars, lastIssue, pathVars, opVars>>

(***************************************************************************)
(* NewFile::from_multipart, step 2 of upload_files, with the mutex free.   *)
(***************************************************************************)
\* Drop for NewFile, when call r becomes `after`: a NewFile that still holds
\* its file removes the path; whoever else holds a file open at that path
\* keeps an unlinked file.
DropKeepsFile(r, td, after) ==
    /\ files' = files
    /\ req' = [req EXCEPT ![r] = after]

DropNewFile(r, td, after) ==
    IF req[r].sink = None
    THEN /\ files' = files
         /\ req' = [req EXCEPT ![r] = after]
    ELSE LET n == req[r].sink[1].name IN
         /\ files' = [files EXCEPT ![td][n] = AbsentFile]
         /\ req' = [x \in Requests |->
                     IF x = r THEN after
                     ELSE IF /\ req[x].sink # None
                             /\ get_upload_config(req[x].token) = td
                             /\ req[x].sink[1].name = n
                          THEN [req[x] EXCEPT !.sink = Some([req[x].sink[1] EXCEPT
                                                                !.linked = FALSE])]
                          ELSE req[x]]

\* The field stream ends: from_multipart returns Ok.
StreamEnd(r) ==
    /\ req[r].pc = "ingest"
    /\ req' = [req EXCEPT ![r] = [req[r] EXCEPT !.pc = "lock3", !.result = "Ok"]]
    /\ UNCHANGED <<now, mutex, storeVars, histVars, lastIssue, pathVars, opVars>>

\* next_field fails: from_multipart returns the error.
StreamError(r) ==
    /\ req[r].pc = "ingest"
    /\ req' = [req EXCEPT ![r] = [req[r] EXCEPT !.pc = "lock3", !.result = "IoError"]]
    /\ UNCHANGED <<now, mutex, storeVars, histVars, lastIssue, pathVars, opVars>>

\* A field without a file name is skipped.
SkipField(r) ==
    /\ req[r].pc = "ingest"
    /\ UNCHANGED vars

\* A field with a file name: NewFile::new creates (or truncates) the file at
\* files/<sanitize_path(name)>.  File::create fails when the sanitised path
\* is empty (it names the directory) or is not a single name of the
\* directory, and when the filesystem refuses (fails).
OpenField(r) ==
    /\ req[r].pc = "ingest"
    /\ \E file_name \in FieldNames, fails \in BOOLEAN :
        LET td == get_upload_config(req[r].token)
            path == sanitize_path(file_name)
        IN  IF fails \/ td \notin filesDirs \/ Len(path) # 1 \/ path \notin Seq(FileNames)
            THEN /\ req' = [req EXCEPT ![r] = [req[r] EXCEPT
                                !.pc = "lock3", !.result = "IoError"]]
                 /\ UNCHANGED files
            ELSE /\ files' = [files EXCEPT ![td][path[1]] =
                                [exists |-> TRUE, size |-> 0, complete |-> FALSE]]
                 /\ req' = [req EXCEPT ![r] = [req[r] EXCEPT
                                !.pc = "file",
                                !.sink = Some(Sink(path[1], 0, TRUE))]]
    /\ UNCHANGED <<now, mutex, dirs, filesDirs, config, histVars, lastIssue, pathVars, opVars>>

\* One blob of the field is read and written: write_all adds it to the file
\* and to the NewFile's size.
WriteBlob(r) ==
    /\ req[r].pc = "file"
    /\ req[r].written < MaxStreamBytes
    /\ LET td == get_upload_config(req[r].token)
           k == req[r].sink[1]
       IN  /\ files' = IF k.linked
                       THEN [files EXCEPT ![td][k.name].size = Max(@, k.size + 1)]
                       ELSE files
           /\ req' = [req EXCEPT ![r] = [req[r] EXCEPT
                          !.written = @ + 1,
                          !.sink = Some([k EXCEPT !.size = @ + 1])]]
    /\ UNCHANGED <<now, mutex, dirs, filesDirs, config, histVars, lastIssue, pathVars, opVars>>

\* An upload_files that returns the ingestion error with `?`, before step 3.
FieldErrorReturnsAtOnce(r) ==
    /\ req[r].pc = "file"
    /\ DropNewFile(r, get_upload_config(req[r].token), Finished("IoError", TRUE, FALSE))
    /\ UNCHANGED <<now, mutex, dirs, filesDirs, config, histVars, lastIssue, pathVars, opVars>>

\* Reading a blob, write_all or the flush of close fails: the error returns
\* and the NewFile is dropped unclosed.
FieldError(r) ==
    /\ req[r].pc = "file"
    /\ DropNewFile(r, get_upload_config(req[r].token),
                   [req[r] EXCEPT !.pc = "lock3", !.result = "IoError", !.sink = None])
    /\ UNCHANGED <<now, mutex, dirs, filesDirs, config, histVars, lastIssue, pathVars, opVars>>

\* A close whose size never reaches the caller's total.
CloseForgetsSize(r) ==
    /\ req[r].pc = "file"
    /\ LET td == get_upload_config(req[r].token)
           k == req[r].sink[1]
       IN  /\ files' = IF k.linked
                       THEN [files EXCEPT ![td][k.name].complete = TRUE]
                       ELSE files
           /\ req' = [req EXCEPT ![r] = [req[r] EXCEPT !.pc = "ingest", !.sink = None]]
           /\ finalizedBytes' = [finalizedBytes EXCEPT ![td] = @ + k.size]
    /\ UNCHANGED <<now, mutex, dirs, filesDirs, config, issued, consumed, lastIssue,
                   pathVars, opVars>>

\* The field ends and NewFile::close flushes: the file is released without
\* removal and its size is added to the total.
CloseField(r) ==
    /\ req[r].pc = "file"
    /\ LET td == get_upload_config(req[r].token)
           k == req[r].sink[1]
       IN  /\ files' = IF k.linked
                       THEN [files EXCEPT ![td][k.name].complete = TRUE]
                       ELSE files
           /\ req' = [req EXCEPT ![r] = [req[r] EXCEPT
                          !.pc = "ingest", !.sink = None, !.total = @ + k.size]]
           /\ finalizedBytes' = [finalizedBytes EXCEPT ![td] = @ + k.size]
    /\ UNCHANGED <<now, mutex, dirs, filesDirs, config, issued, consumed, lastIssue,
                   pathVars, opVars>>

(***************************************************************************)
(* upload_files, step 3: the second update adds the unused part of the     *)
(* reservation back and saves; then write_result is returned.              *)
(***************************************************************************)
RefundLoad(r) ==
    /\ req[r].pc = "lock3"
    /\ CanLock
    /\ LET td == get_upload_config(req[r].token)
           loaded == load_config(td)
       IN  IF loaded = None
           THEN /\ req' = [req EXCEPT ![r] = Finished("NotFound", TRUE, FALSE)]
                /\ UNCHANGED mutex
           ELSE /\ req' = [req EXCEPT ![r] = [req[r] EXCEPT !.pc = "step3", !.cfg = loaded]]
                /\ mutex' = r
    /\ UNCHANGED <<now, storeVars, histVars, lastIssue, pathVars, opVars>>

\* The closure of the second update.
RefundNothing(c, request_size, actual_file_size) == c

RefundClosure(c, request_size, actual_file_size) ==
    [c EXCEPT !.space_quota = @ + saturating_sub(request_size, actual_file_size)]

\* A second update that checks the expiry as the first does.
RefundUnlessExpired(r) ==
    /\ req[r].pc = "step3"
    /\ LET td == get_upload_config(req[r].token)
           c == RefundClosure(req[r].cfg[1], req[r].len, req[r].total)
       IN  IF now > req[r].cfg[1].expiry
           THEN /\ req' = [req EXCEPT ![r] = Finished("Expired", TRUE, FALSE)]
                /\ UNCHANGED <<config, consumed>>
           ELSE /\ config' = save_config(td, c)
                /\ consumed' = [consumed EXCEPT ![td] =
                                   @ + req[r].len - (c.space_quota - req[r].cfg[1].space_quota)]
                /\ req' = [x \in Requests |->
                            IF x = r THEN Finished(req[r].result, TRUE, TRUE)
                            ELSE Disturbed(req[x], td)]
    /\ mutex' = Free
    /\ UNCHANGED <<now, dirs, filesDirs, files, issued, finalizedBytes, lastIssue,
                   pathVars, opVars>>

RefundSave(r) ==
    /\ req[r].pc = "step3"
    /\ LET td == get_upload_config(req[r].token)
           c == RefundClosure(req[r].cfg[1], req[r].len, req[r].total)
       IN  /\ config' = save_config(td, c)
           /\ consumed' = [consumed EXCEPT ![td] =
                              @ + req[r].len - (c.space_quota - req[r].cfg[1].space_quota)]
           /\ req' = [x \in Requests |->
                       IF x = r THEN Finished(req[r].result, TRUE, TRUE)
                       ELSE Disturbed(req[x], td)]
    /\ mutex' = Free
    /\ UNCHANGED <<now, dirs, filesDirs, files, issued, finalizedBytes, lastIssue,
                   pathVars, opVars>>

(***************************************************************************)
(* The future of upload_files is dropped at one of its await points (the   *)
(* client went away): its locals are dropped, an open NewFile among them,  *)
(* and nothing after the await runs.                                       *)
(***************************************************************************)
Cancel(r) ==
    /\ req[r].pc \in {"ingest", "file", "lock3"}
    /\ LET td == get_upload_config(req[r].token) IN
        /\ DropNewFile(r, td, Finished("Cancelled", TRUE, FALSE))
        /\ consumed' = [consumed EXCEPT ![td] = @ + req[r].len]
    /\ UNCHANGED <<now, mutex, dirs, filesDirs, config, issued, finalizedBytes,
                   lastIssue, pathVars, opVars>>

(***************************************************************************)
(* The calls of the other operations, before any of them has started.      *)
(***************************************************************************)
Procs == {1, 2}         \* two tasks call into the Controller concurrently

IdleCall ==
    [pc |-> "idle", kind |-> "load", td |-> get_share_config("t1"), f |-> "keep",
     arg |-> None, result |-> None]

IdleShare ==
    [pc |-> "idle", token |-> "t1", sink |-> None, written |-> 0, result |-> "none"]

Ingests == {1, 2}       \* two calls of from_multipart run concurrently

IdleIngest ==
    [pc |-> "idle", td |-> get_upload_config("t1"), opened |-> 0, written |-> 0,
     sink |-> None, kept |-> {}, result |-> "none"]

\* fn main at line 88, before the channels are made and the tasks spawned;
\* the tasks are named by the JoinHandles of main.
Apps == {"admin_app", "user_app"}

IdleMain ==
    [pc |-> "start", disable_admin_app |-> FALSE, shutdown_handle |-> "held",
     task_active_handles |-> {}, task |-> [a \in Apps |-> "none"],
     conns |-> [a \in Apps |-> 0], interrupt |-> "none"]

OpsIdle ==
    /\ main = IdleMain
    /\ call = [p \in Procs |-> IdleCall]
    /\ share = IdleShare
    /\ argIn = Unset
    /\ resOut = Unset
    /\ ingest = [i \in Ingests |-> IdleIngest]

(***************************************************************************)
(* Spec: calls of upload_files race on one upload token that was issued    *)
(* with some quota and expiry.                                             *)
(***************************************************************************)
UploadDir == get_upload_config("t1")

NoIssue == [td |-> UploadDir, ok |-> FALSE]

Init ==
    /\ now = 0
    /\ mutex = Free
    /\ dirs = {UploadDir}
    /\ filesDirs = {UploadDir}
    /\ \E expiry \in 0..MaxTime, quota \in 0..MaxQuota :
        /\ config = [td \in TokenDirs |->
                        IF td = UploadDir
                        THEN Some(TomlToString(UploadConfig("n", expiry, quota)))
                        ELSE NoFile]
        /\ issued = [td \in TokenDirs |-> IF td = UploadDir THEN quota ELSE 0]
    /\ files = [td \in TokenDirs |-> NoFiles]
    /\ req = [r \in Requests |-> IdleRequest]
    /\ consumed = [td \in TokenDirs |-> 0]
    /\ finalizedBytes = [td \in TokenDirs |-> 0]
    /\ lastIssue = NoIssue
    /\ pathIn = <<>>
    /\ pathOut = Unset
    /\ fnOut = Unset
    /\ OpsIdle

Next ==
    \/ \E r \in Requests : UploadLoad(r)
    \/ \E r \in Requests : UploadReserve(r)
    \/ \E r \in Requests : StreamEnd(r)
    \/ \E r \in Requests : StreamError(r)
    \/ \E r \in Requests : SkipField(r)
    \/ \E r \in Requests : OpenField(r)
    \/ \E r \in Requests : WriteBlob(r)
    \/ \E r \in Requests : FieldError(r)
    \/ \E r \in Requests : CloseField(r)
    \/ \E r \in Requests : RefundLoad(r)
    \/ \E r \in Requests : RefundSave(r)
    \/ \E r \in Requests : Cancel(r)

Spec == Init /\ [][Next]_vars

(***************************************************************************)
(* SpecIssue: the admin issues share and upload tokens into an empty       *)
(* store; the filesystem may refuse any step of an issuance.               *)
(***************************************************************************)
InitIssue ==
    /\ now = 0
    /\ mutex = Free
    /\ dirs = {}
    /\ filesDirs = {}
    /\ config = [td \in TokenDirs |-> NoFile]
    /\ files = [td \in TokenDirs |-> NoFiles]
    /\ req = [r \in Requests |-> IdleRequest]
    /\ issued = [td \in TokenDirs |-> 0]
    /\ consumed = [td \in TokenDirs |-> 0]
    /\ finalizedBytes = [td \in TokenDirs |-> 0]
    /\ lastIssue = NoIssue
    /\ pathIn = <<>>
    /\ pathOut = Unset
    /\ fnOut = Unset
    /\ OpsIdle

NextIssue ==
    \/ new_share_token
    \/ new_upload_token

SpecIssue == InitIssue /\ [][NextIssue]_vars

(***************************************************************************)
(* SpecPath: the path functions applied to every string of at most         *)
(* MaxPathLen characters.                                                  *)
(***************************************************************************)
InitPath ==
    /\ now = 0
    /\ mutex = Free
    /\ dirs = {}
    /\ filesDirs = {}
    /\ config = [td \in TokenDirs |-> NoFile]
    /\ files = [td \in TokenDirs |-> NoFiles]
    /\ req = [r \in Requests |-> IdleRequest]
    /\ issued = [td \in TokenDirs |-> 0]
    /\ consumed = [td \in TokenDirs |-> 0]
    /\ finalizedBytes = [td \in TokenDirs |-> 0]
    /\ lastIssue = NoIssue
    /\ pathIn \in PathStrings
    /\ pathOut = Unset
    /\ fnOut = Unset
    /\ OpsIdle

\* from_multipart line 238: the field's name is sanitised.
SanitizeFieldName ==
    /\ pathOut = Unset
    /\ pathOut' = Some(sanitize_path(pathIn))
    /\ UNCHANGED <<now, mutex, storeVars, req, histVars, lastIssue, pathIn, fnOut, opVars>>

\* The URL's :filename segment is deserialised into a Filename.
ParseFilename ==
    /\ fnOut = Unset
    /\ fnOut' = Some(FilenameDeserialize(pathIn))
    /\ UNCHANGED <<now, mutex, storeVars, req, histVars, lastIssue, pathIn, pathOut, opVars>>

NextPath ==
    \/ SanitizeFieldName
    \/ ParseFilename

SpecPath == InitPath /\ [][NextPath]_vars

(***************************************************************************)
(* SpecIssueUpload: Admin::new_upload_token called again and again, with   *)
(* the config it was given and the Result<Token> it returned on record.    *)
(***************************************************************************)
IssueUpload ==
    \E token \in Tokens, name \in ConfigNames, expiry \in 0..MaxTime,
       quota \in 0..MaxQuota, fault \in Faults :
        /\ NewUploadTokenWith(token, UploadConfig(name, expiry, quota), fault)
        /\ argIn' = Some(UploadConfig(name, expiry, quota))
        /\ resOut' = Some(IF lastIssue'.ok THEN Some(token) ELSE None)
        /\ UNCHANGED <<now, req, consumed, finalizedBytes, pathVars, call, share, ingest, main>>

SpecIssueUpload == InitIssue /\ [][IssueUpload]_vars

(***************************************************************************)
(* Admin::current_shares and Admin::current_uploads: read_dir yields the   *)
(* entries of the category directory in some order; each entry's config is *)
(* loaded, an entry whose load fails is logged and skipped, and the        *)
(* listings are sorted by name with the stable sort_by.                    *)
(***************************************************************************)
\* str::cmp on the names that occur: byte-wise, "" < "n" < "t1" < "t2".
StrRank == [x \in {"", "n", "t1", "t2"} |->
              IF x = "" THEN 0 ELSE IF x = "n" THEN 1 ELSE IF x = "t1" THEN 2 ELSE 3]

Entries(category) == {td \in dirs : td[1] = category}

\* The orders in which read_dir may yield the entries.
ReadDirOrders(S) ==
    {o \in [1..Cardinality(S) -> S] : \A i, j \in DOMAIN o : i # j => o[i] # o[j]}

RECURSIVE Collect(_, _, _)
Collect(order, k, acc) ==
    IF k > Len(order) THEN acc
    ELSE LET loaded == load_config(order[k]) IN
         IF loaded = None
         THEN Collect(order, k + 1, acc)
         ELSE Collect(order, k + 1,
                      Append(acc, [name |-> loaded[1].name, token |-> order[k][2]]))

\* Insertion behind every element that is not greater: the sort is stable.
RECURSIVE InsertByName(_, _)
InsertByName(sorted, x) ==
    IF sorted = <<>> THEN <<x>>
    ELSE IF StrRank[Head(sorted).name] <= StrRank[x.name]
         THEN <<Head(sorted)>> \o InsertByName(Tail(sorted), x)
         ELSE <<x>> \o sorted

RECURSIVE SortFrom(_, _, _)
SortFrom(xs, k, acc) ==
    IF k > Len(xs) THEN acc ELSE SortFrom(xs, k + 1, InsertByName(acc, xs[k]))

\* A listing that is returned in read_dir order.
LeaveUnsorted(xs) == xs

sort_by_name(xs) == SortFrom(xs, 1, <<>>)

\* What a listing of the category returns when read_dir yields `order`.
ListingOf(order) == sort_by_name(Collect(order, 1, <<>>))

current_shares ==
    /\ CanLock
    /\ \E order \in ReadDirOrders(Entries("shares")) : resOut' = Some(ListingOf(order))
    /\ argIn' = Some("shares")
    /\ UNCHANGED <<now, mutex, storeVars, req, histVars, lastIssue, pathVars, call, share, ingest, main>>

current_uploads ==
    /\ CanLock
    /\ \E order \in ReadDirOrders(Entries("uploads")) : resOut' = Some(ListingOf(order))
    /\ argIn' = Some("uploads")
    /\ UNCHANGED <<now, mutex, storeVars, req, histVars, lastIssue, pathVars, call, share, ingest, main>>

(***************************************************************************)
(* SpecList: the listings taken of every store within the bounds: each     *)
(* token directory is absent, or exists with no token.toml, with a corrupt *)
(* one, or with a config of some name.                                     *)
(***************************************************************************)
StoredTexts(td) ==
    {NoFile, Some(Corrupt)}
    \cup {Some(TomlToString(IF td[1] = "uploads" THEN UploadConfig(name, 0, 0)
                            ELSE ShareConfig(name, 0))) :
            name \in (ConfigNames \ {""}) \cup {td[2]} \cup
                     (IF td[1] = "shares" THEN {""} ELSE {})}

InitList ==
    /\ now = 0
    /\ mutex = Free
    /\ dirs \in SUBSET TokenDirs
    /\ filesDirs = dirs
    /\ config \in [TokenDirs -> UNION {StoredTexts(td) : td \in TokenDirs}]
    /\ \A td \in TokenDirs :
        /\ config[td] \in StoredTexts(td)
        /\ td \notin dirs => config[td] = NoFile
    /\ files = [td \in TokenDirs |-> NoFiles]
    /\ req = [r \in Requests |-> IdleRequest]
    /\ issued = [td \in TokenDirs |-> 0]
    /\ consumed = [td \in TokenDirs |-> 0]
    /\ finalizedBytes = [td \in TokenDirs |-> 0]
    /\ lastIssue = NoIssue
    /\ pathIn = <<>>
    /\ pathOut = Unset
    /\ fnOut = Unset
    /\ OpsIdle

NextList ==
    \/ current_shares
    \/ current_uploads

SpecList == InitList /\ [][NextList]_vars

(***************************************************************************)
(* Admin::share_files: the share's config is loaded and its expiry is      *)
(* compared with the clock; then from_multipart ingests the fields into    *)
(* the share's files directory.  Nothing is stored back.                   *)
(***************************************************************************)
\* An expiry check that never fires.
NeverExpired(t, c) == FALSE

\* Timestamp::now() > config.expiry
IsExpired(t, c) == t > c.expiry

ShareDirOf(x) == get_share_config(x.token)

ShareFrame == UNCHANGED <<now, mutex, dirs, filesDirs, config, req, histVars, lastIssue,
                          pathVars, call, argIn, resOut, ingest, main>>

ShareBegin ==
    /\ share.pc \in {"idle", "done"}
    /\ CanLock
    /\ \E token \in Tokens :
        LET loaded == load_config(get_share_config(token))
            ended(result) == [IdleShare EXCEPT !.pc = "done", !.token = token,
                                               !.result = result]
        IN  share' = IF loaded = None THEN ended("NotFound")
                     ELSE IF IsExpired(now, loaded[1]) THEN ended("Expired")
                     ELSE [IdleShare EXCEPT !.pc = "ingest", !.token = token]
    /\ UNCHANGED files
    /\ ShareFrame

\* The field stream ends, or next_field fails: share_files returns.
ShareStreamEnd ==
    /\ share.pc = "ingest"
    /\ \E result \in {"Ok", "IoError"} :
        share' = [share EXCEPT !.pc = "done", !.result = result]
    /\ UNCHANGED files
    /\ ShareFrame

\* NewFile::new on the sanitised name of a field.
ShareOpenField ==
    /\ share.pc = "ingest"
    /\ \E file_name \in FieldNames, fails \in BOOLEAN :
        LET td == ShareDirOf(share)
            path == sanitize_path(file_name)
        IN  IF fails \/ td \notin filesDirs \/ Len(path) # 1 \/ path \notin Seq(FileNames)
            THEN /\ share' = [share EXCEPT !.pc = "done", !.result = "IoError"]
                 /\ UNCHANGED files
            ELSE /\ files' = [files EXCEPT ![td][path[1]] =
                                [exists |-> TRUE, size |-> 0, complete |-> FALSE]]
                 /\ share' = [share EXCEPT !.pc = "file",
                                           !.sink = Some(Sink(path[1], 0, TRUE))]
    /\ ShareFrame

ShareWriteBlob ==
    /\ share.pc = "file"
    /\ share.written < MaxStreamBytes
    /\ LET k == share.sink[1] IN
        /\ files' = [files EXCEPT ![ShareDirOf(share)][k.name].size = k.size + 1]
        /\ share' = [share EXCEPT !.written = @ + 1,
                                  !.sink = Some([k EXCEPT !.size = @ + 1])]
    /\ ShareFrame

\* NewFile::close: the file stays.
ShareCloseField ==
    /\ share.pc = "file"
    /\ files' = [files EXCEPT ![ShareDirOf(share)][share.sink[1].name].complete = TRUE]
    /\ share' = [share EXCEPT !.pc = "ingest", !.sink = None]
    /\ ShareFrame

\* A blob, a write or the flush fails, or the future is dropped: the NewFile
\* is dropped unclosed and removes its file.
ShareFieldError ==
    /\ share.pc = "file"
    /\ files' = [files EXCEPT ![ShareDirOf(share)][share.sink[1].name] = AbsentFile]
    /\ \E result \in {"IoError", "Cancelled"} :
        share' = [share EXCEPT !.pc = "done", !.sink = None, !.result = result]
    /\ ShareFrame

(***************************************************************************)
(* User::directory_listing and User::open_shared_file.                     *)
(***************************************************************************)
\* A listing that is refused once the share has expired.
ListUnlessExpired(td) ==
    LET loaded == load_config(td) IN
    IF loaded = None \/ td \notin filesDirs \/ now > loaded[1].expiry
    THEN [ok |-> FALSE, name |-> "", files |-> {}]
    ELSE [ok |-> TRUE, name |-> loaded[1].name,
          files |-> {n \in FileNames : files[td][n].exists}]

\* directory_listing: the share's name and the entries of its files directory.
ListShare(td) ==
    LET loaded == load_config(td) IN
    IF loaded = None \/ td \notin filesDirs
    THEN [ok |-> FALSE, name |-> "", files |-> {}]
    ELSE [ok |-> TRUE, name |-> loaded[1].name,
          files |-> {n \in FileNames : files[td][n].exists}]

\* open_shared_file: File::open on files/<filename> and its metadata.
OpenShared(td, filename) ==
    IF td \in filesDirs /\ filename \in FileNames /\ files[td][filename].exists
    THEN [ok |-> TRUE, size |-> files[td][filename].size]
    ELSE [ok |-> FALSE, size |-> 0]

ReadFrame == UNCHANGED <<now, mutex, storeVars, req, histVars, lastIssue, pathVars, call,
                         share, ingest, main>>

directory_listing ==
    /\ CanLock
    /\ \E token \in Tokens :
        /\ argIn' = Some([op |-> "directory_listing", token |-> token, at |-> now])
        /\ resOut' = Some(ListShare(get_share_config(token)))
    /\ ReadFrame

open_shared_file ==
    /\ \E token \in Tokens, filename \in FileNames \cup {<<"c">>} :
        /\ argIn' = Some([op |-> "open_shared_file", token |-> token,
                          filename |-> filename, at |-> now])
        /\ resOut' = Some(OpenShared(get_share_config(token), filename))
    /\ ReadFrame

\* Time passes.
Tick ==
    /\ now < MaxTime
    /\ now' = now + 1
    /\ UNCHANGED <<mutex, storeVars, req, histVars, lastIssue, pathVars, opVars>>

(***************************************************************************)
(* SpecShare: one share token; the admin adds files to it again and again  *)
(* while users browse it and open its files, and time passes.              *)
(***************************************************************************)
ShareDir == get_share_config("t1")

InitShare ==
    /\ now = 0
    /\ mutex = Free
    /\ dirs = {ShareDir}
    /\ filesDirs = {ShareDir}
    /\ \E name \in ConfigNames, expiry \in 0..MaxTime :
        config = [td \in TokenDirs |->
                    IF td = ShareDir THEN Some(TomlToString(ShareConfig(name, expiry)))
                    ELSE NoFile]
    /\ files = [td \in TokenDirs |-> NoFiles]
    /\ req = [r \in Requests |-> IdleRequest]
    /\ issued = [td \in TokenDirs |-> 0]
    /\ consumed = [td \in TokenDirs |-> 0]
    /\ finalizedBytes = [td \in TokenDirs |-> 0]
    /\ lastIssue = NoIssue
    /\ pathIn = <<>>
    /\ pathOut = Unset
    /\ fnOut = Unset
    /\ OpsIdle

NextShare ==
    \/ ShareBegin
    \/ ShareStreamEnd
    \/ ShareOpenField
    \/ ShareWriteBlob
    \/ ShareCloseField
    \/ ShareFieldError
    \/ directory_listing
    \/ open_shared_file
    \/ Tick

SpecShare == InitShare /\ [][NextShare]_vars

(***************************************************************************)
(* TokenConfig::create, load and update from concurrent tasks.  Each locks *)
(* the one mutex of the Controller and then calls the synchronous method   *)
(* of TokenConfigMutexCore; the guard is dropped when the call returns.    *)
(***************************************************************************)
\* The closures handed to update: one renames the config and returns its old
\* name, one renames it and then fails, one fails at once.
Closures == {"rename", "rename_then_fail", "fail"}

Apply(f, c) ==
    IF f = "rename"
    THEN [ok |-> TRUE, config |-> [c EXCEPT !.name = "m"], value |-> c.name]
    ELSE IF f = "rename_then_fail"
    THEN [ok |-> FALSE, config |-> [c EXCEPT !.name = "m"], value |-> "f failed"]
    ELSE [ok |-> FALSE, config |-> c, value |-> "f failed"]

\* An update that saves whatever the closure left behind.
SaveWhateverFLeft(td, f) ==
    LET loaded == load_config(td) IN
    IF loaded = None
    THEN [config |-> config, result |-> [ok |-> FALSE, value |-> "load failed"]]
    ELSE LET out == Apply(f, loaded[1]) IN
         [config |-> save_config(td, out.config),
          result |-> [ok |-> out.ok, value |-> out.value]]

\* TokenConfigMutexCore::with_token_config_mut: what token.toml files hold
\* afterwards, and what is returned.
with_token_config_mut(td, f) ==
    LET loaded == load_config(td) IN
    IF loaded = None
    THEN [config |-> config, result |-> [ok |-> FALSE, value |-> "load failed"]]
    ELSE LET out == Apply(f, loaded[1]) IN
         IF ~out.ok
         THEN [config |-> config, result |-> [ok |-> FALSE, value |-> out.value]]
         ELSE [config |-> save_config(td, out.config),
               result |-> [ok |-> TRUE, value |-> out.value]]

\* The config a create call stores in a token directory of the category.
FreshConfig(td) ==
    IF td[1] = "uploads" THEN UploadConfig("n", 0, 1) ELSE ShareConfig("n", 0)

CallFrame == UNCHANGED <<now, files, req, histVars, pathVars, share, argIn, resOut, ingest, main>>

\* A task calls create, load or update on some token directory, once.
CallBegin(p) ==
    /\ call[p].pc = "idle"
    /\ \E kind \in {"create", "load", "update"}, td \in TokenDirs, f \in Closures :
        call' = [call EXCEPT ![p] = [IdleCall EXCEPT
                    !.pc = "waiting", !.kind = kind, !.td = td,
                    !.f = IF kind = "update" THEN f ELSE "keep"]]
    /\ UNCHANGED <<mutex, dirs, filesDirs, config, lastIssue>>
    /\ CallFrame

\* lock().await completes for load and update.
CallLock(p) ==
    /\ call[p].pc = "waiting"
    /\ call[p].kind # "create"
    /\ CanLock
    /\ mutex' = p
    /\ call' = [call EXCEPT ![p].pc = "locked"]
    /\ UNCHANGED <<dirs, filesDirs, config, lastIssue>>
    /\ CallFrame

\* TokenConfig::create: lock, create_token_config, unlock.
CallCreate(p) ==
    /\ call[p].pc = "waiting"
    /\ call[p].kind = "create"
    /\ \E fault \in Faults : create_token_config(call[p].td, FreshConfig(call[p].td), fault)
    /\ call' = [call EXCEPT ![p].pc = "done",
                            ![p].result = Some([ok |-> lastIssue'.ok, value |-> "created"])]
    /\ UNCHANGED <<now, req, histVars, pathVars, share, argIn, resOut, ingest, main>>

\* TokenConfig::load under the lock: token_config reads token.toml.
CallLoad(p) ==
    /\ call[p].pc = "locked"
    /\ call[p].kind = "load"
    /\ LET loaded == load_config(call[p].td) IN
        call' = [call EXCEPT ![p].pc = "done",
                             ![p].arg = loaded,
                             ![p].result = Some([ok |-> loaded # None, value |-> "loaded"])]
    /\ mutex' = Free
    /\ UNCHANGED <<dirs, filesDirs, config, lastIssue>>
    /\ CallFrame

\* TokenConfig::update under the lock.
CallUpdate(p) ==
    /\ call[p].pc = "locked"
    /\ call[p].kind = "update"
    /\ LET out == with_token_config_mut(call[p].td, call[p].f) IN
        /\ config' = out.config
        /\ call' = [call EXCEPT ![p].pc = "done", ![p].result = Some(out.result)]
    /\ mutex' = Free
    /\ UNCHANGED <<dirs, filesDirs, lastIssue>>
    /\ CallFrame

(***************************************************************************)
(* SpecAccess: two tasks call create, load and update on the share and     *)
(* upload tokens of a store in which some tokens exist already.            *)
(***************************************************************************)
InitAccess ==
    /\ now = 0
    /\ mutex = Free
    /\ \E present \in SUBSET {get_share_config("t1"), get_upload_config("t1")} :
        /\ dirs = present
        /\ filesDirs = present
        /\ config = [td \in TokenDirs |->
                        IF td \in present THEN Some(TomlToString(FreshConfig(td)))
                        ELSE NoFile]
    /\ files = [td \in TokenDirs |-> NoFiles]
    /\ req = [r \in Requests |-> IdleRequest]
    /\ issued = [td \in TokenDirs |-> 0]
    /\ consumed = [td \in TokenDirs |-> 0]
    /\ finalizedBytes = [td \in TokenDirs |-> 0]
    /\ lastIssue = NoIssue
    /\ pathIn = <<>>
    /\ pathOut = Unset
    /\ fnOut = Unset
    /\ OpsIdle

NextAccess ==
    \/ \E p \in Procs : CallBegin(p)
    \/ \E p \in Procs : CallLock(p)
    \/ \E p \in Procs : CallCreate(p)
    \/ \E p \in Procs : CallLoad(p)
    \/ \E p \in Procs : CallUpdate(p)

SpecAccess == InitAccess /\ [][NextAccess]_vars

(***************************************************************************)
(* Token::deserialize: the string is a token when each of its characters   *)
(* is '_' or an ASCII letter or digit.  The alphabet holds one character   *)
(* of each class: ASCII letters and a digit, '_', '-', and a letter and a  *)
(* digit outside ASCII (named by their code points).                       *)
(***************************************************************************)
MaxTokenLen == 2        \* longest input string of Token::deserialize
MaxBytes == 3           \* largest ByteCount of the arithmetic

TokenChars == {"a", "Z", "7", "_", "-", "U+00E9", "U+0663"}

TokenStrings == UNION {[1..n -> TokenChars] : n \in 0..MaxTokenLen}

\* char::is_alphanumeric: Unicode letters and digits.
is_alphanumeric(c) == c \in {"a", "Z", "7", "U+00E9", "U+0663"}

\* char::is_ascii_alphanumeric.
is_ascii_alphanumeric(c) == c \in {"a", "Z", "7"}

TokenDeserialize(token) ==
    IF \A i \in 1..Len(token) : token[i] = "_" \/ is_ascii_alphanumeric(token[i])
    THEN [ok |-> TRUE, token |-> token]
    ELSE [ok |-> FALSE, token |-> <<>>]

(***************************************************************************)
(* SpecValue: the value functions applied to every input within the        *)
(* bounds: Token::deserialize to a string, the ByteCount subtractions to a *)
(* pair of counts, and TokenConfig::create followed by TokenConfig::load   *)
(* to a config value.                                                      *)
(***************************************************************************)
ValueDir(v) == IF "space_quota" \in DOMAIN v THEN get_upload_config("t1")
               ELSE get_share_config("t1")

\* The timestamp strings a token.toml may hold: any of the parts, any minute.
TimestampStrings ==
    {[parts |-> parts, minute |-> m] :
        parts \in SUBSET TimestampParts, m \in 0..(MaxTime \div TicksPerMinute)}

ConfigValues ==
    {ShareConfig(name, expiry) : name \in ConfigNames, expiry \in 0..MaxTime}
    \cup {UploadConfig(name, expiry, quota) :
            name \in ConfigNames, expiry \in 0..MaxTime, quota \in 0..MaxQuota}

ValueInputs ==
    {[kind |-> "token", s |-> s] : s \in TokenStrings}
    \cup {[kind |-> "bytes", a |-> a, b |-> b] : a \in 0..MaxBytes, b \in 0..MaxBytes}
    \cup {[kind |-> "config", v |-> v] : v \in ConfigValues}
    \cup {[kind |-> "stamp", text |-> s] : s \in TimestampStrings}

InitValue ==
    /\ now = 0
    /\ mutex = Free
    /\ dirs = {}
    /\ filesDirs = {}
    /\ config = [td \in TokenDirs |-> NoFile]
    /\ files = [td \in TokenDirs |-> NoFiles]
    /\ req = [r \in Requests |-> IdleRequest]
    /\ issued = [td \in TokenDirs |-> 0]
    /\ consumed = [td \in TokenDirs |-> 0]
    /\ finalizedBytes = [td \in TokenDirs |-> 0]
    /\ lastIssue = NoIssue
    /\ pathIn = <<>>
    /\ pathOut = Unset
    /\ fnOut = Unset
    /\ call = [p \in Procs |-> IdleCall]
    /\ share = IdleShare
    /\ \E x \in ValueInputs : argIn = Some(x)
    /\ resOut = Unset
    /\ ingest = [i \in Ingests |-> IdleIngest]
    /\ main = IdleMain

ValueFrame ==
    UNCHANGED <<now, mutex, storeVars, req, histVars, lastIssue, pathVars, call, share,
                argIn, ingest, main>>

\* A URL's :token segment is deserialised into a Token.
ParseToken ==
    /\ resOut = Unset
    /\ argIn[1].kind = "token"
    /\ resOut' = Some(TokenDeserialize(argIn[1].s))
    /\ ValueFrame

\* The expiry string of a token.toml is deserialised into a Timestamp.
ParseTimestamp ==
    /\ resOut = Unset
    /\ argIn[1].kind = "stamp"
    /\ resOut' = Some(TimestampDeserialize(argIn[1].text))
    /\ ValueFrame

CheckedSub ==
    /\ resOut = Unset
    /\ argIn[1].kind = "bytes"
    /\ resOut' = Some([op |-> "checked_sub", r |-> checked_sub(argIn[1].a, argIn[1].b)])
    /\ ValueFrame

SaturatingSub ==
    /\ resOut = Unset
    /\ argIn[1].kind = "bytes"
    /\ resOut' = Some([op |-> "saturating_sub",
                       r |-> saturating_sub(argIn[1].a, argIn[1].b)])
    /\ ValueFrame

\* TokenConfig::create stores the config value at a fresh token directory.
CreateValue ==
    /\ resOut = Unset
    /\ argIn[1].kind = "config"
    /\ ~lastIssue.ok
    /\ create_token_config(ValueDir(argIn[1].v), argIn[1].v, "none")
    /\ UNCHANGED <<now, req, histVars, pathVars, opVars>>

\* TokenConfig::load reads it back.
LoadValue ==
    /\ resOut = Unset
    /\ argIn[1].kind = "config"
    /\ lastIssue.ok
    /\ CanLock
    /\ resOut' = Some(load_config(ValueDir(argIn[1].v)))
    /\ ValueFrame

NextValue ==
    \/ ParseToken
    \/ ParseTimestamp
    \/ CheckedSub
    \/ SaturatingSub
    \/ CreateValue
    \/ LoadValue

SpecValue == InitValue /\ [][NextValue]_vars

(***************************************************************************)
(* NewFile::from_multipart on its own, as upload_files and share_files     *)
(* call it with the files directory of a token.  The path of a field is    *)
(* the files directory joined with the sanitised file name; File::create   *)
(* acts on the path the operating system resolves it to.                   *)
(***************************************************************************)
MaxFields == 2          \* fields with a file name that one call opens at most

\* The token directory, its files directory and its token.toml as paths
\* below the storage directory.
StorePath(td) == << <<td[1]>>, <<td[2]>> >>

files_directory(td) == Append(StorePath(td), <<"files">>)

ConfigPath(td) == Append(StorePath(td), <<"token", ".", "toml">>)

\* The files the store holds under the files directories.
FileSlots == TokenDirs \X FileNames

SlotPath(slot) == Append(files_directory(slot[1]), slot[2])

SlotsAt(path) == {slot \in FileSlots : SlotPath(slot) = path}

IsDirectory(path) ==
    \/ path = <<>>
    \/ \E c \in Categories : path = << <<c>> >>
    \/ \E td \in dirs : path = StorePath(td)
    \/ \E td \in filesDirs : path = files_directory(td)

\* File::create succeeds on a path that names no directory and whose parent
\* is a directory.
CanCreate(path) == ~IsDirectory(path) /\ path # <<>> /\ IsDirectory(Pop(path))

\* The path NewFile::new is called with, resolved.
FilePath(td, file_name) == Resolve(Join(files_directory(td), sanitize_path(file_name)))

\* What File::create and remove_file do to the files of the store.
CreateAt(path) ==
    [td \in TokenDirs |-> [n \in FileNames |->
        IF SlotPath(<<td, n>>) = path
        THEN [exists |-> TRUE, size |-> 0, complete |-> FALSE]
        ELSE files[td][n]]]

RemoveAt(path) ==
    [td \in TokenDirs |-> [n \in FileNames |->
        IF SlotPath(<<td, n>>) = path THEN AbsentFile ELSE files[td][n]]]

\* A NewFile of from_multipart: the path it was created at, the file name
\* the field declared, the bytes written, and whether the path still names
\* the file it holds open.
FieldSink(path, declared, size, linked) ==
    [path |-> path, declared |-> declared, size |-> size, linked |-> linked]

\* Another NewFile's file at the path was removed: it keeps an unlinked file.
Unlinked(x, path) ==
    IF x.sink # None /\ x.sink[1].path = path
    THEN [x EXCEPT !.sink = Some([x.sink[1] EXCEPT !.linked = FALSE])]
    ELSE x

IngestDirs == {get_upload_config("t1"), get_share_config("t2")}

IngestFrame == UNCHANGED <<now, mutex, dirs, filesDirs, req, histVars, lastIssue,
                           pathVars, call, share, argIn, resOut, main>>

\* upload_files or share_files calls from_multipart on a token's files
\* directory: the first call on the upload token's, the second on the same
\* or on the share token's.
IngestBegin(i) ==
    /\ ingest[i].pc = "idle"
    /\ \E td \in IF i = 1 THEN {get_upload_config("t1")} ELSE IngestDirs :
        ingest' = [ingest EXCEPT ![i] = [IdleIngest EXCEPT !.pc = "next", !.td = td]]
    /\ UNCHANGED <<config, files>>
    /\ IngestFrame

\* next_field yields None (Ok) or fails.
IngestStreamEnd(i) ==
    /\ ingest[i].pc = "next"
    /\ \E result \in {"Ok", "IoError"} :
        ingest' = [ingest EXCEPT ![i].pc = "done", ![i].result = result]
    /\ UNCHANGED <<config, files>>
    /\ IngestFrame

\* A field with a file name: NewFile::new creates or truncates the file.
IngestOpenField(i) ==
    /\ ingest[i].pc = "next"
    /\ ingest[i].opened < MaxFields
    /\ \E file_name \in FieldNames, fails \in BOOLEAN :
        LET path == FilePath(ingest[i].td, file_name) IN
        IF fails \/ ~CanCreate(path)
        THEN /\ ingest' = [ingest EXCEPT ![i].pc = "done", ![i].result = "IoError"]
             /\ UNCHANGED <<config, files>>
        ELSE /\ files' = CreateAt(path)
             /\ config' = [td \in TokenDirs |->
                            IF ConfigPath(td) = path THEN Some(Corrupt) ELSE config[td]]
             /\ ingest' = [ingest EXCEPT
                            ![i].pc = "file",
                            ![i].opened = @ + 1,
                            ![i].sink = Some(FieldSink(path, file_name, 0, TRUE))]
    /\ IngestFrame

\* A blob of the field is written to the file.
IngestWriteBlob(i) ==
    /\ ingest[i].pc = "file"
    /\ ingest[i].written < MaxStreamBytes
    /\ LET k == ingest[i].sink[1] IN
        /\ files' = IF k.linked
                    THEN [td \in TokenDirs |-> [n \in FileNames |->
                            IF SlotPath(<<td, n>>) = k.path
                            THEN [files[td][n] EXCEPT !.size = Max(@, k.size + 1)]
                            ELSE files[td][n]]]
                    ELSE files
        /\ ingest' = [ingest EXCEPT ![i].written = @ + 1,
                                    ![i].sink = Some([k EXCEPT !.size = @ + 1])]
    /\ UNCHANGED config
    /\ IngestFrame

\* NewFile::close: the file stays, complete.
IngestCloseField(i) ==
    /\ ingest[i].pc = "file"
    /\ LET k == ingest[i].sink[1] IN
        /\ files' = IF k.linked
                    THEN [td \in TokenDirs |-> [n \in FileNames |->
                            IF SlotPath(<<td, n>>) = k.path
                            THEN [files[td][n] EXCEPT !.complete = TRUE]
                            ELSE files[td][n]]]
                    ELSE files
        /\ ingest' = [ingest EXCEPT
                        ![i].pc = "next",
                        ![i].sink = None,
                        ![i].kept = {f \in @ : f.path # k.path}
                                    \cup {[path |-> k.path, size |-> k.size]}]
    /\ UNCHANGED config
    /\ IngestFrame

\* A blob, a write or the flush fails, or the future is dropped: the NewFile
\* is dropped unclosed and removes the file at its path.
IngestFieldError(i) ==
    /\ ingest[i].pc = "file"
    /\ LET path == ingest[i].sink[1].path IN
        /\ files' = RemoveAt(path)
        /\ \E result \in {"IoError", "Cancelled"} :
            ingest' = [x \in Ingests |->
                        IF x = i
                        THEN [ingest[i] EXCEPT !.pc = "done", !.sink = None,
                                               !.result = result]
                        ELSE Unlinked(ingest[x], path)]
    /\ UNCHANGED config
    /\ IngestFrame

(***************************************************************************)
(* SpecIngest: two calls of from_multipart, both on the files directory of  *)
(* an upload token, or one on it and one on that of a share token.         *)
(***************************************************************************)
InitIngest ==
    /\ now = 0
    /\ mutex = Free
    /\ dirs = IngestDirs
    /\ filesDirs = IngestDirs
    /\ config = [td \in TokenDirs |->
                    IF td \in IngestDirs THEN Some(TomlToString(FreshConfig(td)))
                    ELSE NoFile]
    /\ files = [td \in TokenDirs |-> NoFiles]
    /\ req = [r \in Requests |-> IdleRequest]
    /\ issued = [td \in TokenDirs |-> 0]
    /\ consumed = [td \in TokenDirs |-> 0]
    /\ finalizedBytes = [td \in TokenDirs |-> 0]
    /\ lastIssue = NoIssue
    /\ pathIn = <<>>
    /\ pathOut = Unset
    /\ fnOut = Unset
    /\ OpsIdle

NextIngest ==
    \/ \E i \in Ingests : IngestBegin(i)
    \/ \E i \in Ingests : IngestStreamEnd(i)
    \/ \E i \in Ingests : IngestOpenField(i)
    \/ \E i \in Ingests : IngestWriteBlob(i)
    \/ \E i \in Ingests : IngestCloseField(i)
    \/ \E i \in Ingests : IngestFieldError(i)

SpecIngest == InitIngest /\ [][NextIngest]_vars

(***************************************************************************)
(* SpecIsolation: a store with one share token and one upload token, each  *)
(* with a file in its files directory.  A user redeems an upload, the      *)
(* admin adds files to a share, and users browse shares and open shared    *)
(* files, each with either token string.  The calls follow one another:    *)
(* the redemption and the calls of share_files first, then the browsing    *)
(* and opening of what they left in the store.                             *)
(***************************************************************************)
ShareToken == "t1"

UploadToken == "t2"

StoredFile(size) == [exists |-> TRUE, size |-> size, complete |-> TRUE]

InitIsolation ==
    /\ now = 0
    /\ mutex = Free
    /\ dirs = {get_share_config(ShareToken), get_upload_config(UploadToken)}
    /\ filesDirs = dirs
    /\ config = [td \in TokenDirs |->
                    IF td = get_share_config(ShareToken)
                    THEN Some(TomlToString(ShareConfig("n", MaxTime)))
                    ELSE IF td = get_upload_config(UploadToken)
                    THEN Some(TomlToString(UploadConfig("n", MaxTime, MaxQuota)))
                    ELSE NoFile]
    /\ files = [td \in TokenDirs |->
                    IF td = get_share_config(ShareToken)
                    THEN [NoFiles EXCEPT ![<<"a">>] = StoredFile(1)]
                    ELSE IF td = get_upload_config(UploadToken)
                    THEN [NoFiles EXCEPT ![<<"b">>] = StoredFile(1)]
                    ELSE NoFiles]
    /\ req = [r \in Requests |-> IdleRequest]
    /\ issued = [td \in TokenDirs |->
                    IF td = get_upload_config(UploadToken) THEN MaxQuota ELSE 0]
    /\ consumed = [td \in TokenDirs |-> 0]
    /\ finalizedBytes = [td \in TokenDirs |-> 0]
    /\ lastIssue = NoIssue
    /\ pathIn = <<>>
    /\ pathOut = Unset
    /\ fnOut = Unset
    /\ OpsIdle

\* No call of upload_files or share_files is in flight.
Quiet ==
    /\ \A r \in Requests : req[r].pc \in {"idle", "done"}
    /\ share.pc \in {"idle", "done"}

RedeemWhenQuiet == Quiet /\ argIn = None /\ UploadLoad(1)

ShareWhenQuiet == Quiet /\ argIn = None /\ ShareBegin

BrowseWhenQuiet == Quiet /\ directory_listing

OpenWhenQuiet == Quiet /\ open_shared_file

NextIsolation ==
    \/ RedeemWhenQuiet
    \/ \E r \in {1} : UploadReserve(r)
    \/ \E r \in {1} : StreamEnd(r)
    \/ \E r \in {1} : StreamError(r)
    \/ \E r \in {1} : OpenField(r)
    \/ \E r \in {1} : WriteBlob(r)
    \/ \E r \in {1} : FieldError(r)
    \/ \E r \in {1} : CloseField(r)
    \/ \E r \in {1} : RefundLoad(r)
    \/ \E r \in {1} : RefundSave(r)
    \/ ShareWhenQuiet
    \/ ShareStreamEnd
    \/ ShareOpenField
    \/ ShareWriteBlob
    \/ ShareCloseField
    \/ ShareFieldError
    \/ BrowseWhenQuiet
    \/ OpenWhenQuiet

SpecIsolation == InitIsolation /\ [][NextIsolation]_vars

(***************************************************************************)
(* SpecReissue: the admin issues tokens into a store that already holds a  *)
(* share and an upload under the token string t1, each with a file; the    *)
(* generator may draw t1 again.                                            *)
(***************************************************************************)
InitReissue ==
    /\ now = 0
    /\ mutex = Free
    /\ dirs = {get_share_config("t1"), get_upload_config("t1")}
    /\ filesDirs = dirs
    /\ config = [td \in TokenDirs |->
                    IF td = get_share_config("t1")
                    THEN Some(TomlToString(ShareConfig("n", MaxTime)))
                    ELSE IF td = get_upload_config("t1")
                    THEN Some(TomlToString(UploadConfig("n", MaxTime, MaxQuota)))
                    ELSE NoFile]
    /\ files = [td \in TokenDirs |->
                    IF td \in {get_share_config("t1"), get_upload_config("t1")}
                    THEN [NoFiles EXCEPT ![<<"a">>] = StoredFile(1)]
                    ELSE NoFiles]
    /\ req = [r \in Requests |-> IdleRequest]
    /\ issued = [td \in TokenDirs |->
                    IF td = get_upload_config("t1") THEN MaxQuota ELSE 0]
    /\ consumed = [td \in TokenDirs |-> 0]
    /\ finalizedBytes = [td \in TokenDirs |-> 0]
    /\ lastIssue = NoIssue
    /\ pathIn = <<>>
    /\ pathOut = Unset
    /\ fnOut = Unset
    /\ OpsIdle

SpecReissue == InitReissue /\ [][NextIssue]_vars

(***************************************************************************)
(* SpecProgress: on the store of SpecIsolation, at a time when neither     *)
(* token has expired, a redemption, a config operation and calls of        *)
(* share_files whose streams carry no file run concurrently.  The          *)
(* program's own steps are taken when they stay possible: the runtime      *)
(* polls a task that can continue, and tokio's Mutex hands the lock to a   *)
(* waiter once it is free.  Nothing is assumed of the clients: a stream    *)
(* may stay silent for ever, and a client may go away.                     *)
(***************************************************************************)
InitProgress ==
    /\ now = MaxTime
    /\ mutex = Free
    /\ dirs = {get_share_config(ShareToken), get_upload_config(UploadToken)}
    /\ filesDirs = dirs
    /\ config = [td \in TokenDirs |->
                    IF td = get_share_config(ShareToken)
                    THEN Some(TomlToString(ShareConfig("n", MaxTime)))
                    ELSE IF td = get_upload_config(UploadToken)
                    THEN Some(TomlToString(UploadConfig("n", MaxTime, MaxQuota)))
                    ELSE NoFile]
    /\ files = [td \in TokenDirs |->
                    IF td = get_share_config(ShareToken)
                    THEN [NoFiles EXCEPT ![<<"a">>] = StoredFile(1)]
                    ELSE IF td = get_upload_config(UploadToken)
                    THEN [NoFiles EXCEPT ![<<"b">>] = StoredFile(1)]
                    ELSE NoFiles]
    /\ req = [r \in Requests |-> IdleRequest]
    /\ issued = [td \in TokenDirs |->
                    IF td = get_upload_config(UploadToken) THEN MaxQuota ELSE 0]
    /\ consumed = [td \in TokenDirs |-> 0]
    /\ finalizedBytes = [td \in TokenDirs |-> 0]
    /\ lastIssue = NoIssue
    /\ pathIn = <<>>
    /\ pathOut = Unset
    /\ fnOut = Unset
    /\ OpsIdle

NextProgress ==
    \/ \E r \in {1} : UploadLoad(r)
    \/ \E r \in {1} : UploadReserve(r)
    \/ \E r \in {1} : StreamEnd(r)
    \/ \E r \in {1} : StreamError(r)
    \/ \E r \in {1} : OpenField(r)
    \/ \E r \in {1} : WriteBlob(r)
    \/ \E r \in {1} : FieldError(r)
    \/ \E r \in {1} : CloseField(r)
    \/ \E r \in {1} : RefundLoad(r)
    \/ \E r \in {1} : RefundSave(r)
    \/ \E r \in {1} : Cancel(r)
    \/ ShareBegin
    \/ ShareStreamEnd
    \/ \E p \in {1} : CallBegin(p)
    \/ \E p \in {1} : CallLock(p)
    \/ \E p \in {1} : CallCreate(p)
    \/ \E p \in {1} : CallLoad(p)
    \/ \E p \in {1} : CallUpdate(p)

FairProgress ==
    /\ WF_vars(UploadReserve(1))
    /\ WF_vars(RefundLoad(1))
    /\ WF_vars(RefundSave(1))
    /\ WF_vars(CallLock(1))
    /\ WF_vars(CallCreate(1))
    /\ WF_vars(CallLoad(1))
    /\ WF_vars(CallUpdate(1))

SpecProgress == InitProgress /\ [][NextProgress]_vars /\ FairProgress

(***************************************************************************)
(* SpecMain: fn main and the three tasks it spawns.  A task is spawned,    *)
(* then polled: an app binds its port (Server::bind panics when it         *)
(* cannot) and is serving, or, the admin app being disabled, is waiting    *)
(* for the shutdown signal.  A serving app that sees the signal is         *)
(* draining: it accepts nothing new and finishes with its last open        *)
(* connection.  A task ends ok (its future returned) or panicked; either   *)
(* way the task_active_handle its future held is dropped.                  *)
(***************************************************************************)
MaxConns == 1           \* connections an app has open at a time

MainFrame ==
    UNCHANGED <<now, mutex, storeVars, req, histVars, lastIssue, pathVars, call, share,
                argIn, resOut, ingest>>

Ended(state) == state \in {"ok", "panicked"}

\* A task's future is gone: the clone of task_active_handle inside it is dropped.
TaskEnds(a, state) ==
    [main EXCEPT !.task[a] = state, !.task_active_handles = @ \ {a}]

\* Lines 88-104: the channels, the controller and the three spawns.
MainStart ==
    /\ main.pc = "start"
    /\ main' = [main EXCEPT !.pc = "select",
                            !.task_active_handles = Apps,
                            !.task = [a \in Apps |-> "spawned"],
                            !.interrupt = "waiting"]
    /\ MainFrame

\* The first poll of run: up to the first await.
AppStart(a) ==
    /\ main.task[a] = "spawned"
    /\ \E bound \in BOOLEAN :
        main' = IF a = "admin_app" /\ main.disable_admin_app
                THEN [main EXCEPT !.task[a] = "waiting"]
                ELSE IF bound THEN [main EXCEPT !.task[a] = "serving"]
                ELSE TaskEnds(a, "panicked")
    /\ MainFrame

\* A client connects to a serving app.
ConnOpen(a) ==
    /\ main.task[a] = "serving"
    /\ main.conns[a] < MaxConns
    /\ main' = [main EXCEPT !.conns[a] = @ + 1]
    /\ MainFrame

\* A connection is closed.
ConnClose(a) ==
    /\ main.task[a] \in {"serving", "draining"}
    /\ main.conns[a] > 0
    /\ main' = [main EXCEPT !.conns[a] = @ - 1]
    /\ MainFrame

\* The server future ends with an error: run logs it and returns.
ServeError(a) ==
    /\ main.task[a] = "serving"
    /\ main' = TaskEnds(a, "ok")
    /\ MainFrame

\* with_graceful_shutdown: the shutdown signal has resolved.
AppShutdown(a) ==
    /\ main.task[a] = "serving"
    /\ main.shutdown_handle = "dropped"
    /\ main' = [main EXCEPT !.task[a] = "draining"]
    /\ MainFrame

\* The graceful shutdown is over: run returns.
AppFinish(a) ==
    /\ main.task[a] = "draining"
    /\ main.conns[a] = 0
    /\ main' = TaskEnds(a, "ok")
    /\ MainFrame

\* The disabled admin app: shutdown_signal.await, then return.
AdminWake ==
    /\ main.task["admin_app"] = "waiting"
    /\ main.shutdown_handle = "dropped"
    /\ main' = TaskEnds("admin_app", "ok")
    /\ MainFrame

\* ctrl_c() resolves: with Ok the task ends, with Err the unwrap panics.
Interrupt ==
    /\ main.interrupt = "waiting"
    /\ \E received \in BOOLEAN :
        main' = [main EXCEPT !.interrupt = IF received THEN "ok" ELSE "panicked"]
    /\ MainFrame

\* select_ok resolves with the first JoinHandle that yields Ok, or with the
\* last error once every handle has failed.
SelectResolves ==
    \/ \E a \in Apps : main.task[a] = "ok"
    \/ main.interrupt = "ok"
    \/ /\ \A a \in Apps : main.task[a] = "panicked"
       /\ main.interrupt = "panicked"

\* Lines 106-110: select_ok has resolved and shutdown_handle is dropped.
MainSelect ==
    /\ main.pc = "select"
    /\ SelectResolves
    /\ main' = [main EXCEPT !.pc = "recv", !.shutdown_handle = "dropped"]
    /\ MainFrame

\* What is left of the tasks when main returns and the runtime is dropped.
Cancelled(state) == IF Ended(state) THEN state ELSE "cancelled"

\* A recv that returns as soon as one task has dropped its handle.
RecvAfterFirstTask ==
    /\ main.pc = "recv"
    /\ main.task_active_handles # Apps
    /\ main' = [main EXCEPT !.pc = "returned",
                            !.task = [a \in Apps |-> Cancelled(main.task[a])],
                            !.interrupt = Cancelled(main.interrupt)]
    /\ MainFrame

\* Line 112: recv yields None once every sender is dropped; main returns.
MainRecv ==
    /\ main.pc = "recv"
    /\ main.task_active_handles = {}
    /\ main' = [main EXCEPT !.pc = "returned",
                            !.task = [a \in Apps |-> Cancelled(main.task[a])],
                            !.interrupt = Cancelled(main.interrupt)]
    /\ MainFrame

InitMain ==
    /\ now = 0
    /\ mutex = Free
    /\ dirs = {}
    /\ filesDirs = {}
    /\ config = [td \in TokenDirs |-> NoFile]
    /\ files = [td \in TokenDirs |-> NoFiles]
    /\ req = [r \in Requests |-> IdleRequest]
    /\ issued = [td \in TokenDirs |-> 0]
    /\ consumed = [td \in TokenDirs |-> 0]
    /\ finalizedBytes = [td \in TokenDirs |-> 0]
    /\ lastIssue = NoIssue
    /\ pathIn = <<>>
    /\ pathOut = Unset
    /\ fnOut = Unset
    /\ call = [p \in Procs |-> IdleCall]
    /\ share = IdleShare
    /\ argIn = Unset
    /\ resOut = Unset
    /\ ingest = [i \in Ingests |-> IdleIngest]
    /\ \E disabled \in BOOLEAN : main = [IdleMain EXCEPT !.disable_admin_app = disabled]

NextMain ==
    \/ MainStart
    \/ \E a \in Apps : AppStart(a)
    \/ \E a \in Apps : ConnOpen(a)
    \/ \E a \in Apps : ConnClose(a)
    \/ \E a \in Apps : ServeError(a)
    \/ \E a \in Apps : AppShutdown(a)
    \/ \E a \in Apps : AppFinish(a)
    \/ AdminWake
    \/ Interrupt
    \/ MainSelect
    \/ MainRecv

\* The runtime polls main and every task that can go on; nothing is assumed
\* of clients, of the operator's ctrl-c or of server errors.
FairMain ==
    /\ WF_vars(MainStart)
    /\ WF_vars(MainSelect)
    /\ WF_vars(MainRecv)
    /\ WF_vars(AdminWake)
    /\ \A a \in Apps : WF_vars(AppStart(a)) /\ WF_vars(AppShutdown(a))

SpecMain == InitMain /\ [][NextMain]_vars /\ FairMain

(***************************************************************************)
(* The claims.                                                             *)
(***************************************************************************)
StoredQuota(td) == load_config(td)[1].space_quota

DirOf(r) == get_upload_config(req[r].token)

Idle == \A r \in Requests : req[r].pc \in {"idle", "done"}

\* C1: in a sequential run, a redemption that reserved L of the stored quota
\* Q and finalized exactly L bytes leaves the stored quota at Q - L; a
\* redemption that declares more than the stored quota (and is not expired)
\* fails OutOfSpace, changes no file and leaves the stored config unchanged.
C1_SequentialQuota ==
    [][\A r \in Requests :
        /\ ( /\ req[r].pc = "step3" /\ req'[r].pc = "done"
             /\ req[r].alone /\ req[r].total = req[r].len )
           => /\ req[r].len <= req[r].q0
              /\ StoredQuota(DirOf(r))' = req[r].q0 - req[r].len
        /\ ( /\ req[r].pc = "step1" /\ req'[r].pc # "step1"
             /\ now' <= req[r].cfg[1].expiry
             /\ req[r].len > StoredQuota(DirOf(r)) )
           => /\ req'[r].pc = "done" /\ req'[r].result = "OutOfSpace"
              /\ config' = config /\ files' = files
              /\ finalizedBytes' = finalizedBytes
    ]_vars

\* C1 witness: a token issued with quota 1 took one redemption that wrote its
\* whole reservation of 1 byte, leaving quota 0, and the next redemption
\* failed OutOfSpace with quota still 0.
C1_Witness ==
    /\ issued[UploadDir] = 1
    /\ req[1].pc = "done" /\ req[1].result = "Ok"
    /\ finalizedBytes[UploadDir] = 1
    /\ req[2].pc = "done" /\ req[2].result = "OutOfSpace"
    /\ StoredQuota(UploadDir) = 0

C3_RefundAlwaysRuns ==
    \A r \in Requests :
        (req[r].pc = "done" /\ req[r].reserved) => req[r].refunded

\* C4: the load, check and decrement of step 1 is atomic against every other
\* step 1 and step 3 of the token: a call inside an update holds the mutex
\* and its loaded config is the stored one, and the stored quota plus the
\* reservations of the calls in flight plus the quota settled by finished
\* calls is the quota the token was issued with, so reservations never
\* exceed the quota that was there.
C4_ReservationAtomic ==
    /\ \A r \in Requests :
        req[r].pc \in {"step1", "step3"}
            => mutex = r /\ req[r].cfg = load_config(DirOf(r))
    /\ issued[UploadDir] =
          StoredQuota(UploadDir) + SumLen(Reserving(UploadDir)) + consumed[UploadDir]
    /\ StoredQuota(UploadDir) >= 0

\* C4 witness: two calls raced for a quota of 2 that only one declared
\* length fits; one holds its reservation of 2 while streaming, the other
\* failed OutOfSpace.
C4_Witness ==
    /\ issued[UploadDir] = 2
    /\ req[1].pc = "file" /\ req[1].len = 2
    /\ req[2].pc = "done" /\ req[2].result = "OutOfSpace"

\* C5 as claimed: the stored quota stays within 0 and the issued quota, and
\* whenever no redemption is in flight, issued quota minus stored quota is
\* the number of bytes finalized through the token.
C5_QuotaInvariant ==
    /\ 0 <= StoredQuota(UploadDir)
    /\ StoredQuota(UploadDir) <= issued[UploadDir]
    /\ Idle => issued[UploadDir] - StoredQuota(UploadDir) = finalizedBytes[UploadDir]

\* C6: a redemption whose check runs at now > expiry fails Expired, also when
\* its declared length exceeds the quota, and changes neither the stored
\* config nor any file; one whose check runs at now <= expiry does not fail
\* Expired.
C6_Expiry ==
    [][\A r \in Requests :
        ( req[r].pc = "step1" /\ req'[r].pc # "step1" )
        => IF now' > load_config(DirOf(r))[1].expiry
           THEN /\ req'[r].pc = "done" /\ req'[r].result = "Expired"
                /\ config' = config /\ files' = files
                /\ finalizedBytes' = finalizedBytes
           ELSE req'[r].result # "Expired"
    ]_vars

\* C6 witness: a redemption declaring more than the quota failed Expired and
\* the token is as it was issued.
C6_Witness ==
    /\ req[1].pc = "done" /\ req[1].result = "Expired"
    /\ req[2].pc = "idle"
    /\ now > load_config(UploadDir)[1].expiry
    /\ issued[UploadDir] = 0
    /\ StoredQuota(UploadDir) = 0
    /\ files[UploadDir] = NoFiles

\* C7: for every input string the sanitised path joined to the base
\* directory resolves to the base or below it, and it holds no "." or ".."
\* that could move above the base.
C7_SanitizedStaysUnderBase ==
    pathOut # Unset =>
        /\ IsPrefix(BaseDir, Resolve(Join(BaseDir, pathOut[1])))
        /\ Resolve(Join(BaseDir, pathOut[1])) = Join(BaseDir, pathOut[1])

\* C7 witness: "../a" was sanitised to "a".
C7_Witness ==
    /\ pathIn = <<".", ".", "/", "a">>
    /\ pathOut = Some(<< <<"a">> >>)

\* One normal path segment: not empty, no separator, neither "." nor "..".
IsOneNormalSegment(s) ==
    /\ s # <<>>
    /\ \A i \in 1..Len(s) : s[i] # "/"
    /\ s # <<".">>
    /\ s # <<".", ".">>

\* C8 as claimed: Filename parsing succeeds iff the input is exactly one
\* normal path segment, and an accepted name is the input itself.
C8_FilenameExactlyOneSegment ==
    fnOut # Unset =>
        /\ fnOut[1].ok <=> IsOneNormalSegment(pathIn)
        /\ fnOut[1].ok => fnOut[1].name = pathIn

\* A file on disk that no NewFile finished is still held by an open NewFile.
NoAbandonedPartialFile ==
    \A td \in TokenDirs, n \in FileNames :
        (files[td][n].exists /\ ~files[td][n].complete)
            => \E r \in Requests :
                /\ req[r].sink # None
                /\ DirOf(r) = td
                /\ req[r].sink[1].name = n
                /\ req[r].sink[1].linked

C10_AtomicPair ==
    \A td \in TokenDirs :
        /\ td \in dirs <=> config[td] # NoFile
        /\ config[td] # NoFile => td \in filesDirs

\* C11: Token::deserialize succeeds iff every character of the string is in
\* [A-Za-z0-9_]: the empty string is a token, a string with '-' or with a
\* letter or digit outside ASCII is not; an accepted token is the string.
C11_TokenCharset ==
    (resOut # Unset /\ argIn[1].kind = "token") =>
        LET s == argIn[1].s IN
        /\ resOut[1].ok <=> \A i \in 1..Len(s) : s[i] \in {"a", "Z", "7", "_"}
        /\ resOut[1].ok => resOut[1].token = s

\* C11 witness: a string with a non-ASCII letter was rejected.
C11_Witness ==
    /\ argIn = Some([kind |-> "token", s |-> <<"a", "U+00E9">>])
    /\ resOut = Some([ok |-> FALSE, token |-> <<>>])

\* C14 as claimed: a config value that was created at a path and loaded
\* again equals the value, whatever its expiry.
C14_ConfigRoundTrip ==
    (resOut # Unset /\ argIn[1].kind = "config") => resOut[1] = Some(argIn[1].v)

\* C15: checked_sub(a, b) is a - b for a >= b and none for a < b;
\* saturating_sub(a, b) is a - b for a >= b and 0 for a < b, never below 0.
C15_ByteCountSub ==
    (resOut # Unset /\ argIn[1].kind = "bytes") =>
        LET a == argIn[1].a
            b == argIn[1].b
            r == resOut[1].r
        IN  /\ resOut[1].op = "checked_sub" =>
                /\ a >= b => r = Some(a - b)
                /\ a < b => r = None
            /\ resOut[1].op = "saturating_sub" =>
                /\ r >= 0
                /\ a >= b => r = a - b
                /\ a < b => r = 0

\* C15 witness: checked_sub(1, 2) returned none.
C15_Witness ==
    /\ argIn = Some([kind |-> "bytes", a |-> 1, b |-> 2])
    /\ resOut = Some([op |-> "checked_sub", r |-> None])

\* C12 as claimed: when new_upload_token returns a token, the config stored
\* under that token has the expiry and the space_quota of the argument, and
\* its name is the argument's name, or the token's string when that is empty.
C12_IssueUploadPersistsArguments ==
    (resOut # Unset /\ resOut[1] # None) =>
        LET token == resOut[1][1]
            given == argIn[1]
            stored == load_config(get_upload_config(token))
        IN  /\ stored # None
            /\ stored[1].expiry = given.expiry
            /\ stored[1].space_quota = given.space_quota
            /\ stored[1].name = IF given.name = "" THEN token ELSE given.name

\* C13: a listing holds exactly one entry, with the stored name, for every
\* token directory of the category whose config loads; a directory whose
\* config is missing or unparsable is left out and does not fail the
\* listing; the entries are in ascending order of name.
C13_ListingResilience ==
    resOut # Unset =>
        LET category == argIn[1]
            listing == resOut[1]
            Loads(td) == td \in dirs /\ load_config(td) # None
        IN  /\ \A token \in Tokens :
                Loads(<<category, token>>) =>
                    /\ Cardinality({i \in DOMAIN listing : listing[i].token = token}) = 1
                    /\ \A i \in DOMAIN listing :
                        listing[i].token = token =>
                            listing[i].name = load_config(<<category, token>>)[1].name
            /\ \A i \in DOMAIN listing : Loads(<<category, listing[i].token>>)
            /\ \A i, j \in DOMAIN listing :
                i < j => StrRank[listing[i].name] <= StrRank[listing[j].name]

\* C13 witness: current_uploads skipped a token with a corrupt config and
\* returned the other token of the category.
C13_Witness ==
    /\ argIn = Some("uploads")
    /\ config[get_upload_config("t1")] = Some(Corrupt)
    /\ resOut = Some(<<[name |-> "n", token |-> "t2"]>>)

\* C16: directory_listing of a share whose config loads returns the share's
\* name and the files now in its files directory, and open_shared_file of a
\* file that exists succeeds with its size, whatever the clock says about
\* the share's expiry; open_shared_file of a path that does not exist fails.
C16_ReadsIgnoreExpiry ==
    [][(argIn' # argIn \/ resOut' # resOut) =>
        LET a == argIn'[1]
            r == resOut'[1]
            td == get_share_config(a.token)
        IN  /\ ( /\ a.op = "directory_listing"
                 /\ load_config(td) # None
                 /\ td \in filesDirs )
               => /\ r.ok
                  /\ r.name = load_config(td)[1].name
                  /\ r.files = {n \in FileNames : files[td][n].exists}
            /\ a.op = "open_shared_file"
               => IF /\ td \in filesDirs
                     /\ a.filename \in FileNames
                     /\ files[td][a.filename].exists
                  THEN r.ok /\ r.size = files[td][a.filename].size
                  ELSE ~r.ok
    ]_vars

\* C16 witness: a share that had expired was browsed and its file was listed.
C16_Witness ==
    /\ argIn # Unset
    /\ argIn[1].op = "directory_listing"
    /\ argIn[1].token = "t1"
    /\ argIn[1].at > load_config(ShareDir)[1].expiry
    /\ resOut[1].ok
    /\ resOut[1].files = {<<"a">>}

\* C17: share_files on a share whose expiry is before the clock ends Expired
\* without touching a file; otherwise it goes on to ingest, and files change
\* only in that share's files directory while it ingests; no step of it
\* changes a stored config.
C17_ShareFilesExpiry ==
    [][/\ config' = config
       /\ (share.pc \in {"idle", "done"} /\ share' # share) =>
            LET loaded == load_config(ShareDirOf(share')) IN
            loaded # None =>
                IF now > loaded[1].expiry
                THEN /\ share'.pc = "done" /\ share'.result = "Expired"
                     /\ files' = files
                ELSE share'.pc = "ingest"
       /\ files' # files =>
            /\ share.pc \in {"ingest", "file"}
            /\ \A td \in TokenDirs : td # ShareDirOf(share) => files'[td] = files[td]
    ]_vars

\* C17 witness: a call of share_files stored file a while the share was
\* valid, and a later call ended Expired and left it there.
C17_Witness ==
    /\ share.pc = "done" /\ share.result = "Expired"
    /\ now > load_config(ShareDir)[1].expiry
    /\ files[ShareDir][<<"a">>] = [exists |-> TRUE, size |-> 1, complete |-> TRUE]

\* C18: no call holds the mutex while it ingests fields or waits for its
\* second update; the mutex is held only by a call inside one of its two
\* updates.
C18_MutexFreeWhileStreaming ==
    /\ \A r \in Requests : req[r].pc \in {"ingest", "file", "lock3"} => mutex # r
    /\ mutex # Free => req[mutex].pc \in {"step1", "step3"}

\* C18 witness: while call 1, which started first, is still writing a file,
\* call 2 has reserved, streamed and refunded, and the mutex is free.
C18_Witness ==
    /\ req[1].pc = "file"
    /\ req[2].pc = "done" /\ req[2].result = "Ok" /\ req[2].refunded
    /\ mutex = Free

\* At most one task is inside a config access, and it holds the mutex.
OneConfigAccess ==
    /\ \A p, q \in Procs : (call[p].pc = "locked" /\ call[q].pc = "locked") => p = q
    /\ \A p \in Procs : call[p].pc = "locked" => mutex = p
    /\ mutex # Free => call[mutex].pc = "locked"

\* C19: at most one create, load or update is in progress at any moment,
\* whatever token and config type each addresses: while one task is inside
\* its access, no token.toml or token directory changes and no other task
\* completes an access; and token.toml files change only in a step of a task
\* that has the mutex.
C19_OneAccessAtATime ==
    /\ []OneConfigAccess
    /\ [][/\ \A p \in Procs :
                (call[p].pc = "locked" /\ call'[p].pc = "locked") =>
                    /\ config' = config /\ dirs' = dirs /\ filesDirs' = filesDirs
                    /\ \A q \in Procs : call'[q].pc = "done" => call[q].pc = "done"
          /\ config' # config =>
                \E p \in Procs :
                    /\ call'[p].pc = "done"
                    /\ \/ call[p].pc = "locked" /\ mutex = p
                       \/ call[p].pc = "waiting" /\ call[p].kind = "create" /\ mutex = Free
       ]_vars

\* C19 witness: a task is inside an update of a share's config while the
\* other waits to create an upload token.
C19_Witness ==
    /\ call[1].pc = "locked" /\ call[1].kind = "update" /\ call[1].td[1] = "shares"
    /\ call[2].pc = "waiting" /\ call[2].kind = "create" /\ call[2].td[1] = "uploads"
    /\ mutex = 1

StillOnDisk(f) ==
    \E slot \in SlotsAt(f.path) :
        files[slot[1]][slot[2]] = [exists |-> TRUE, size |-> f.size, complete |-> TRUE]

\* C21 as claimed: when from_multipart has returned an I/O error, every file
\* it finalized from an earlier field is on disk with its complete contents,
\* whatever the field names were.
C21_FinalizedFilesSurviveAbort ==
    \A i \in Ingests :
        (ingest[i].pc = "done" /\ ingest[i].result = "IoError")
            => \A f \in ingest[i].kept : StillOnDisk(f)

\* C22 as claimed: when from_multipart has returned, with success or with an
\* error, the total it reported is the number of bytes the call wrote.
C22_TotalIsBytesWritten ==
    \A r \in Requests :
        req[r].pc \in {"lock3", "step3"} => req[r].total = req[r].written

\* C22 amended: the total grows once per closed file, by the size of that
\* file: between fields it is the number of bytes written, inside a field it
\* lacks the bytes of the open file, after a success it is the number of
\* bytes written, and after a failure it lacks the bytes written to the file
\* that was open when the call failed.
C22_TotalIsBytesClosed ==
    /\ [](\A r \in Requests :
            /\ req[r].pc = "ingest" => req[r].total = req[r].written
            /\ req[r].pc = "file" => req[r].total + req[r].sink[1].size = req[r].written
            /\ req[r].pc \in {"lock3", "step3"} =>
                /\ req[r].total <= req[r].written
                /\ req[r].result = "Ok" => req[r].total = req[r].written)
    /\ [][\A r \in Requests :
            (InFlight(req[r]) /\ InFlight(req'[r]) /\ req'[r].total # req[r].total)
                => /\ req[r].pc = "file" /\ req'[r].pc = "ingest"
                   /\ req'[r].total = req[r].total + req[r].sink[1].size
       ]_vars

\* C22 witness: the call failed inside a file after writing a byte to it,
\* and the total it reports is 0.
C22_Witness ==
    \E r \in Requests :
        /\ req[r].pc = "lock3" /\ req[r].result = "IoError"
        /\ req[r].total = 0 /\ req[r].written = 1
        /\ req[r].len = 1

C24_SinksNeverCollide ==
    \A i, j \in Ingests :
        ( /\ i # j
          /\ ingest[i].pc = "file" /\ ingest[j].pc = "file"
          /\ \/ ingest[i].td # ingest[j].td
             \/ ingest[i].sink[1].declared # ingest[j].sink[1].declared )
        => ingest[i].sink[1].path # ingest[j].sink[1].path

\* The positions and data of call r that the program itself holds.
Progress(x) == <<x.pc, x.token, x.len, x.total, x.sink, x.result>>

\* C25: the expiry is looked at in step 1 only.  A call ends Expired only
\* without a reservation; a step in which the clock moves changes no file
\* and nothing in the calls that hold a reservation; and a call whose
\* token expired while it streamed completes step 3 like any other: it
\* returns the result of its ingestion, removes no file, and gets back only
\* the part of its reservation that the bytes it finalized did not use.
C25_ExpiryOnlyAtStart ==
    /\ [](\A r \in Requests :
            req[r].result = "Expired" => (req[r].pc = "done" /\ ~req[r].reserved))
    /\ [][/\ now' # now =>
                /\ files' = files
                /\ \A r \in Requests :
                        InFlight(req[r]) => Progress(req'[r]) = Progress(req[r])
          /\ \A r \in Requests :
                ( /\ req[r].pc = "step3" /\ req'[r].pc # "step3"
                  /\ now > req[r].cfg[1].expiry )
                => /\ req'[r].pc = "done"
                   /\ req'[r].result = req[r].result
                   /\ req'[r].refunded
                   /\ files' = files
                   /\ StoredQuota(DirOf(r))' =
                         StoredQuota(DirOf(r)) + saturating_sub(req[r].len, req[r].total)
       ]_vars

\* C25 witness: call 1 reserved while the token was valid and finalized a
\* 1-byte file; the token then expired, as call 2 found, and call 1 is
\* inside its step 3.
C25_Witness ==
    /\ req[1].pc = "step3" /\ req[1].result = "Ok" /\ req[1].total = 1
    /\ req[2].pc = "done" /\ req[2].result = "Expired"
    /\ now > req[1].cfg[1].expiry
    /\ files[UploadDir][<<"a">>] = [exists |-> TRUE, size |-> 1, complete |-> TRUE]

\* C28: whatever file names the fields declare, a step of from_multipart
\* changes no token.toml and no directory; it changes files only in the
\* files directory of the token it was called for; and the path of every
\* NewFile it opens is one name directly below that files directory.
C28_IngestTouchesOnlyOwnFiles ==
    [][/\ config' = config
       /\ dirs' = dirs
       /\ filesDirs' = filesDirs
       /\ \A td \in TokenDirs :
            files'[td] # files[td] =>
                \E i \in Ingests :
                    /\ ingest[i].td = td
                    /\ ingest[i].pc \in {"next", "file"}
                    /\ \/ ingest'[i].pc # ingest[i].pc
                       \/ ingest'[i].written # ingest[i].written
       /\ \A i \in Ingests :
            ingest'[i].sink # None =>
                LET path == ingest'[i].sink[1].path
                    base == files_directory(ingest'[i].td)
                IN  /\ Len(path) = Len(base) + 1
                    /\ IsPrefix(base, path)
                    /\ path[Len(path)] \in FileNames
                    /\ \A td \in TokenDirs : path # ConfigPath(td)
    ]_vars

\* C28 witness: a call for the upload token was fed the file name "../a"
\* and holds a file at the token's files/a; the share token has no file and
\* both configs are as they were stored.
C28_Witness ==
    /\ ingest[1].td = get_upload_config("t1")
    /\ ingest[1].pc = "file"
    /\ ingest[1].sink[1].declared = <<".", ".", "/", "a">>
    /\ ingest[1].sink[1].path = Append(files_directory(get_upload_config("t1")), <<"a">>)
    /\ files[get_upload_config("t1")][<<"a">>].exists
    /\ files[get_share_config("t2")] = NoFiles
    /\ \A td \in IngestDirs : config[td] = Some(TomlToString(FreshConfig(td)))

\* C26 as claimed: every expiry stored in a token.toml shows a date, a time
\* and an offset from UTC, and deserialising a timestamp string that lacks
\* one of the three fails.
C26_ExplicitOffset ==
    /\ \A td \in TokenDirs :
        config[td] # NoFile => config[td][1].expiry.parts = TimestampParts
    /\ (resOut # Unset /\ argIn[1].kind = "stamp" /\ argIn[1].text.parts # TimestampParts)
        => resOut[1] = None

\* C27: tokens are confined to their category, as long as no token string is
\* issued in both.  A redemption either proceeds with the upload token or,
\* given the share token, ends NotFound with the store untouched, and no step
\* of it changes a config or a file of a share; share_files given the upload
\* token ends NotFound with the store untouched, and no step of share_files
\* changes a config or a file of an upload; browsing or opening with the
\* upload token fails, whatever the upload's files directory holds.
C27_CategoryIsolation ==
    /\ [](argIn # None /\ argIn[1].token = UploadToken => ~resOut[1].ok)
    /\ [][/\ req' # req =>
                /\ \A token \in Tokens :
                    /\ config'[get_share_config(token)] = config[get_share_config(token)]
                    /\ files'[get_share_config(token)] = files[get_share_config(token)]
                /\ req[1].pc = "idle" =>
                    IF req'[1].pc = "step1"
                    THEN req'[1].token = UploadToken
                    ELSE /\ req'[1].pc = "done"
                         /\ req'[1].result = "NotFound"
                         /\ UNCHANGED storeVars
          /\ share' # share =>
                /\ \A token \in Tokens :
                    /\ config'[get_upload_config(token)] = config[get_upload_config(token)]
                    /\ files'[get_upload_config(token)] = files[get_upload_config(token)]
                /\ share.pc \in {"idle", "done"} /\ share'.token = UploadToken =>
                    /\ share'.pc = "done"
                    /\ share'.result = "NotFound"
                    /\ UNCHANGED storeVars]_vars

\* A file was deposited through the upload token, share_files was refused
\* that token, and opening the deposited file with it was tried.
C27_Witness ==
    /\ req[1].pc = "done" /\ req[1].result = "Ok"
    /\ files[get_upload_config(UploadToken)][<<"a">>].exists
    /\ files[get_upload_config(UploadToken)][<<"a">>].complete
    /\ share.pc = "done" /\ share.token = UploadToken /\ share.result = "NotFound"
    /\ argIn # None
    /\ argIn[1].op = "open_shared_file"
    /\ argIn[1].token = UploadToken
    /\ argIn[1].filename = <<"a">>

\* C29: an issuance whose drawn token names a token directory that already
\* exists fails and changes nothing in the store; and no issuance at all
\* changes the config or the files of a token directory that existed before.
C29_IssuanceNeverOverwrites ==
    [][/\ lastIssue'.td \in dirs =>
            /\ ~lastIssue'.ok
            /\ UNCHANGED <<storeVars, issued>>
       /\ \A td \in dirs :
            /\ config'[td] = config[td]
            /\ files'[td] = files[td]]_vars

\* The generator drew the string of the existing share: the issuance failed,
\* and the share's config and file are as they were.
C29_Witness ==
    /\ lastIssue = [td |-> get_share_config("t1"), ok |-> FALSE]
    /\ load_config(get_share_config("t1")) = Some(ShareConfig("n", MaxTime))
    /\ files[get_share_config("t1")][<<"a">>] = StoredFile(1)
    /\ get_upload_config("t2") \in dirs

\* C30: under fair scheduling a config operation that waits for the mutex
\* gets it and gives it back, a held mutex is released, a redemption whose
\* field stream has ended (normally or with an error) returns, and
\* share_files returns in the very step in which its ingestion ends.
C30_Progress ==
    /\ (call[1].pc = "waiting") ~> (call[1].pc = "done")
    /\ (mutex # Free) ~> (mutex = Free)
    /\ (req[1].pc = "lock3") ~> (req[1].pc = "done")
    /\ [][share.pc \in {"ingest", "file"} /\ share'.pc \notin {"ingest", "file"}
            => share'.pc = "done"]_vars

\* The redemption's stream has ended and its second update waits for the
\* mutex, which a config operation holds.
C30_Witness ==
    /\ req[1].pc = "lock3"
    /\ call[1].pc = "locked"
    /\ mutex # Free

\* C31: once the admin app task, the user app task or the interrupt task has
\* completed successfully, shutdown_handle is dropped and both apps come to
\* see the signal (each is draining, or has ended); and main returns only
\* when both app tasks have ended, the admin app being disabled or not.
C31_GracefulShutdown ==
    /\ [](main.pc = "returned" => \A a \in Apps : Ended(main.task[a]))
    /\ ((\E a \in Apps : main.task[a] = "ok") \/ main.interrupt = "ok")
            ~> (main.shutdown_handle = "dropped")
    /\ (main.shutdown_handle = "dropped")
            ~> (\A a \in Apps : main.task[a] = "draining" \/ Ended(main.task[a]))

\* The admin app is disabled, ctrl-c came, the user app drained a connection
\* that was open when the signal reached it, and main has returned.
C31_Witness ==
    /\ main.disable_admin_app
    /\ main.pc = "returned"
    /\ main.interrupt = "ok"
    /\ \A a \in Apps : main.task[a] = "ok"
    /\ main.task_active_handles = {}

====
